---- MODULE Spec2Model ----
(***************************************************************************)
(* A model of chase: the loader of downloaded Chase Bank transaction       *)
(* files (Chase.read_input_files / Chase._read_csv_file), the merchant     *)
(* normalizer (Chase._normalize_merchant) and the recurrence detector      *)
(* (Chase._analyze_merchant_recurrence).                                   *)
(*                                                                         *)
(* Conventions of the model:                                               *)
(*  - a str that the code inspects character by character (a Description,  *)
(*    an alias, a merchant) is a sequence of one-character strings; a str  *)
(*    that is only compared or used as a key (a category, a file name) is  *)
(*    a TLA+ string;                                                       *)
(*  - a dict is a function whose DOMAIN is the set of its keys; an ordered *)
(*    dict that the code iterates (an alias table) is a sequence of        *)
(*    [alias, target] entries with distinct aliases;                       *)
(*  - a date is a <<month, day, year>> triple as written in the CSV, and a *)
(*    timestamp is a number of days since 1970-01-01: mktime() at local    *)
(*    midnight divided by 86400, in a time zone without daylight saving;   *)
(*  - an Amount is a number of cents; a quotient the code computes in      *)
(*    floating point is the exact fraction <<numerator, denominator>>.     *)
(***************************************************************************)
EXTENDS Integers, Sequences, FiniteSets, TLC

VARIABLES
    \* Chase.__init__: the configuration tables
    startswith_aliases, in_aliases, categories_by_merchant,
    \* Chase.__init__: the aggregates and the dedup map
    categories, filenames_by_row,
    \* Chase.read_input_files: the arguments start and end, the file names
    \* opened so far, the one being read and the number of its rows read
    start, end, files, filename, nrows, pc,
    \* the file system: the rows of each file as far as they have been read,
    \* and the files whose end has been seen
    fs, closed,
    \* observation: the row handled last with the branch the loop body took,
    \* and the aggregates as they stood each time a file was finished
    last, snapshots,
    \* Chase._normalize_merchant: its argument, its return value
    pcN, description, normalized,
    \* Chase._analyze_merchant_recurrence: its arguments, the value of time()
    \* (in half days since 1970-01-01), its return value
    pcR, transactions, income, now, result,
    \* the order in which the keys of Chase.categories and of each category's
    \* merchants were inserted (a dict iterates in that order); the options of
    \* the command line that the reports read; what the report, chart or
    \* recurrence operation called last printed, returned or raised
    order, options, out,
    \* ChaseCLI.main: its position, the operations it has called, the month
    \* span it computed, the exception that ended it
    pcM, ran, nmonths, error,
    \* ChaseApp: whether it runs, the panel that has the focus, the key pressed
    \* last and the focus before it
    app

configVars == <<startswith_aliases, in_aliases, categories_by_merchant>>
loadVars == <<categories, filenames_by_row, start, end, files, filename, nrows,
              pc, fs, closed, last, snapshots>>
normVars == <<pcN, description, normalized>>
recVars == <<pcR, transactions, income, now, result>>
reportVars == <<order, options, out>>
mainVars == <<pcM, ran, nmonths, error>>
uiVars == <<app, reportVars, mainVars>>
vars == <<configVars, loadVars, normVars, recVars, uiVars>>

(***************************************************************************)
(* Generic helpers.                                                        *)
(***************************************************************************)
Min(S) == CHOOSE x \in S : \A y \in S : x <= y

Max(S) == CHOOSE x \in S : \A y \in S : x >= y

Range(s) == {s[i] : i \in 1..Len(s)}

\* dict.get(key, default)
Get(d, key, default) == IF key \in DOMAIN d THEN d[key] ELSE default

\* All sequences over S of length 0..n.
SeqsUpTo(S, n) == UNION {[1..k -> S] : k \in 0..n}

(***************************************************************************)
(* str operations used by _normalize_merchant.                             *)
(***************************************************************************)
\* str.upper() on one character: the lower-case letters of the model's
\* alphabet, every other character unchanged.
Uppercase ==
    ("a" :> "A") @@ ("b" :> "B") @@ ("f" :> "F") @@ ("j" :> "J") @@
    ("n" :> "N") @@ ("t" :> "T") @@ ("y" :> "Y") @@ ("p" :> "P")

UpperChar(c) == IF c \in DOMAIN Uppercase THEN Uppercase[c] ELSE c

\* str.upper()
Upper(s) == [i \in 1..Len(s) |-> UpperChar(s[i])]

\* s.startswith(p)
StartsWith(s, p) == Len(p) <= Len(s) /\ SubSeq(s, 1, Len(p)) = p

\* p in s
Contains(s, p) ==
    \E i \in 0..(Len(s) - Len(p)) : SubSeq(s, i + 1, i + Len(p)) = p

(***************************************************************************)
(* Dates: strptime/mktime and localtime/strftime, in days.                 *)
(***************************************************************************)
\* int(mktime(strptime(s_date, "%m/%d/%Y"))) for the date <<month, day, year>>:
\* the number of days from 1970-01-01 to it (proleptic Gregorian calendar).
Mktime(mdy) ==
    LET m == mdy[1]
        d == mdy[2]
        y == IF m <= 2 THEN mdy[3] - 1 ELSE mdy[3]
        era == y \div 400
        yoe == y - era * 400
        mp == IF m > 2 THEN m - 3 ELSE m + 9
        doy == (153 * mp + 2) \div 5 + d - 1
        doe == yoe * 365 + yoe \div 4 - yoe \div 100 + doy
    IN  era * 146097 + doe - 719468

\* strftime("%Y-%m", localtime(date)): the <<year, month>> of the day `date`.
StrftimeYm(date) ==
    LET z == date + 719468
        era == z \div 146097
        doe == z - era * 146097
        yoe == (doe - doe \div 1460 + doe \div 36524 - doe \div 146096) \div 365
        doy == doe - (365 * yoe + yoe \div 4 - yoe \div 100)
        mp == (5 * doy + 2) \div 153
        m == IF mp < 10 THEN mp + 3 ELSE mp - 9
        y == yoe + era * 400
    IN  <<IF m <= 2 THEN y + 1 ELSE y, m>>

(***************************************************************************)
(* Chase._normalize_merchant.                                              *)
(***************************************************************************)
\* A bug the claims must exclude: the substring table is scanned before the
\* prefix table.
NormalizeMerchantInFirst(merchant, sw_aliases, i_aliases) ==
    LET m == Upper(merchant)
        swHits == {i \in 1..Len(sw_aliases) : StartsWith(m, sw_aliases[i].alias)}
        inHits == {i \in 1..Len(i_aliases) : Contains(m, i_aliases[i].alias)}
    IN  IF inHits # {} THEN i_aliases[Min(inHits)].target
        ELSE IF swHits # {} THEN sw_aliases[Min(swHits)].target
        ELSE m

\* A bug the claims must exclude: the longest matching alias wins, not the first.
NormalizeMerchantLongest(merchant, sw_aliases, i_aliases) ==
    LET m == Upper(merchant)
        swHits == {i \in 1..Len(sw_aliases) : StartsWith(m, sw_aliases[i].alias)}
        inHits == {i \in 1..Len(i_aliases) : Contains(m, i_aliases[i].alias)}
        Longest(t, hits) ==
            CHOOSE i \in hits : \A j \in hits :
                \/ Len(t[i].alias) > Len(t[j].alias)
                \/ Len(t[i].alias) = Len(t[j].alias) /\ i <= j
    IN  IF swHits # {} THEN sw_aliases[Longest(sw_aliases, swHits)].target
        ELSE IF inHits # {} THEN i_aliases[Longest(i_aliases, inHits)].target
        ELSE m

\* merchant.upper(); the first startswith alias the merchant starts with;
\* else the first in alias it contains; else the upper-cased merchant.
NormalizeMerchant(merchant, sw_aliases, i_aliases) ==
    LET m == Upper(merchant)
        swHits == {i \in 1..Len(sw_aliases) : StartsWith(m, sw_aliases[i].alias)}
        inHits == {i \in 1..Len(i_aliases) : Contains(m, i_aliases[i].alias)}
    IN  IF swHits # {} THEN sw_aliases[Min(swHits)].target
        ELSE IF inHits # {} THEN i_aliases[Min(inHits)].target
        ELSE m

(***************************************************************************)
(* Chase._analyze_merchant_recurrence.                                     *)
(***************************************************************************)
\* `return None`
None == [merchant |-> "None"]

\* The name of the merchant analysed.
MerchantName == "MERCHANT"

Abs(x) == IF x < 0 THEN -x ELSE x

\* sorted(): ascending.
Sorted(s) == SortSeq(s, LAMBDA a, b : a < b)

RECURSIVE Sum(_)
\* sum()
Sum(s) == IF s = <<>> THEN 0 ELSE s[1] + Sum(Tail(s))

\* A bug the claims must exclude: the sign of the amount is not looked at.
KeepsAnySign(raw_amount, inc) == TRUE

\* A bug the claims must exclude: a zero amount passes the sign filter.
KeepsZero(raw_amount, inc) ==
    ~(inc /\ raw_amount < 0) /\ ~(~inc /\ raw_amount > 0)

\* The sign filter: income mode skips raw_amount <= 0, expense mode skips
\* raw_amount >= 0.
Keeps(raw_amount, inc) ==
    ~(inc /\ raw_amount <= 0) /\ ~(~inc /\ raw_amount >= 0)

\* txn_data after the first loop: (date, abs(amount)) of the kept
\* transactions, in the order of the list.
SignFiltered(txns, inc) ==
    LET kept == SelectSeq(txns, LAMBDA t : Keeps(t["Amount"], inc))
    IN  [i \in 1..Len(kept) |->
            [date |-> kept[i]["transaction_date"], amount |-> Abs(kept[i]["Amount"])]]

\* A bug the claims must exclude: the lower of the two middle elements is taken
\* when the number of amounts is even.
MedianLower(amounts) == Sorted(amounts)[((Len(amounts) - 1) \div 2) + 1]

\* amounts[len(amounts) // 2] of the sorted amounts (indices from 0).
MedianOf(amounts) == Sorted(amounts)[(Len(amounts) \div 2) + 1]

\* A bug the claims must exclude: the amounts above twice the median are
\* dropped too.
OutlierFilteredBothSides(txn_data) ==
    LET initial_median == MedianOf([i \in 1..Len(txn_data) |-> txn_data[i].amount])
    IN  SelectSeq(txn_data, LAMBDA p : /\ 2 * p.amount >= initial_median
                                       /\ p.amount <= 2 * initial_median)

\* A bug the claims must exclude: an amount equal to half of the median is
\* dropped too.
OutlierFilteredStrict(txn_data) ==
    LET initial_median == MedianOf([i \in 1..Len(txn_data) |-> txn_data[i].amount])
    IN  SelectSeq(txn_data, LAMBDA p : 2 * p.amount > initial_median)

\* txn_data after the outlier filter: a >= initial_median * 0.5.
OutlierFiltered(txn_data) ==
    LET initial_median == MedianOf([i \in 1..Len(txn_data) |-> txn_data[i].amount])
    IN  SelectSeq(txn_data, LAMBDA p : 2 * p.amount >= initial_median)

\* A bug the claims must exclude: the bounds of the band are exclusive.
AmountsConsistentStrict(amounts, median_amount) ==
    \A i \in 1..Len(amounts) :
        5 * Abs(amounts[i] - median_amount) < median_amount

\* all(abs(amt - median_amount) / median_amount <= 0.20 for amt in amounts)
AmountsConsistent(amounts, median_amount) ==
    \A i \in 1..Len(amounts) :
        5 * Abs(amounts[i] - median_amount) <= median_amount

\* The gaps in days between consecutive dates of the sorted list.
Intervals(dates) == [i \in 1..(Len(dates) - 1) |-> dates[i + 1] - dates[i]]

\* A bug the claims must exclude: every gap must be of 20 to 40 days.
IntervalRejectedEachGap(dates) ==
    /\ Len(dates) >= 2
    /\ \E i \in 1..(Len(dates) - 1) :
         dates[i + 1] - dates[i] < 20 \/ dates[i + 1] - dates[i] > 40

\* A bug the claims must exclude: the bounds of the interval are exclusive.
IntervalRejectedStrict(dates) ==
    /\ Len(dates) >= 2
    /\ LET intervals == Intervals(dates)
       IN  \/ Sum(intervals) <= 20 * Len(intervals)
           \/ Sum(intervals) >= 40 * Len(intervals)

\* len(dates) >= 2 and (avg_interval < 20 or avg_interval > 40), where
\* avg_interval = sum(intervals) / len(intervals).
IntervalRejected(dates) ==
    /\ Len(dates) >= 2
    /\ LET intervals == Intervals(dates)
       IN  \/ Sum(intervals) < 20 * Len(intervals)
           \/ Sum(intervals) > 40 * Len(intervals)

\* A bug the claims must exclude: the last transaction may be three years old.
TooOldThreeYears(date, t) == 2 * date < t - 2 * (3 * 365)

\* A bug the claims must exclude: the last transaction must be within one year.
TooOldOneYear(date, t) == 2 * date < t - 2 * 365

\* dates[-1] < time() - 2 * 365 * 24 * 60 * 60, with t = time() in half days.
TooOld(date, t) == 2 * date < t - 2 * (2 * 365)

\* A bug the claims must exclude: the count is the number of transactions.
PatternCountingTransactions(merchant, months, amounts) ==
    [merchant |-> merchant,
     count |-> Len(amounts),
     avg_amount |-> <<Sum(amounts), Len(amounts)>>,
     annual_cost |-> <<Sum(amounts) * 12, Len(amounts)>>]

\* The dict returned for a recurring merchant: avg_amount is
\* sum(amounts) / len(amounts) and annual_cost is avg_amount * 12.
Pattern(merchant, months, amounts) ==
    [merchant |-> merchant,
     count |-> Cardinality(months),
     avg_amount |-> <<Sum(amounts), Len(amounts)>>,
     annual_cost |-> <<Sum(amounts) * 12, Len(amounts)>>]

\* The function: None, or the pattern of a recurring merchant.
AnalyzeMerchantRecurrence(merchant, txns, inc, t) ==
    IF Len(txns) < 3 THEN None
    ELSE LET signed == SignFiltered(txns, inc) IN
    IF Len(signed) < 3 THEN None
    ELSE LET txn_data == OutlierFiltered(signed) IN
    IF Len(txn_data) < 3 THEN None
    ELSE LET months == {StrftimeYm(txn_data[i].date) : i \in 1..Len(txn_data)}
             dates == Sorted([i \in 1..Len(txn_data) |-> txn_data[i].date])
             amounts == Sorted([i \in 1..Len(txn_data) |-> txn_data[i].amount])
             median_amount == MedianOf(amounts)
         IN
    IF Cardinality(months) < 3 THEN None
    ELSE IF median_amount = 0 THEN [merchant |-> "ZeroDivisionError"]
    ELSE IF ~AmountsConsistent(amounts, median_amount) THEN None
    ELSE IF IntervalRejected(dates) THEN None
    ELSE IF TooOld(dates[Len(dates)], t) THEN None
    ELSE Pattern(merchant, months, amounts)

\* The detector where it is not run.
RecIdle ==
    /\ pcR = "off"
    /\ transactions = <<>>
    /\ income = FALSE
    /\ now = 0
    /\ result = None

\* One call of the function.
Analyze ==
    /\ pcR = "call"
    /\ result' = AnalyzeMerchantRecurrence(MerchantName, transactions, income, now)
    /\ pcR' = "done"
    /\ UNCHANGED <<configVars, loadVars, normVars, uiVars, transactions, income, now>>

NextRecur == Analyze

\* A transaction as the detector reads it.
Txn(date, amount) == ("transaction_date" :> date) @@ ("Amount" :> amount)

\* time() at midnight (half = 0) or noon (half = 1) of the date mdy.
TimeAt(mdy, half) == 2 * Mktime(mdy) + half

\* The fractions a / b and c / d are equal (b, d > 0).
FracEq(x, y) == x[1] * y[2] = y[1] * x[2]

(***************************************************************************)
(* The aggregates: MerchantData, CategoryData.                             *)
(***************************************************************************)
\* MerchantData()
MerchantData == [total |-> 0, count |-> 0, transactions |-> <<>>]

\* CategoryData(); the two averages are fractions, 0.0 at first.
CategoryData ==
    [total |-> 0, count |-> 0, merchants |-> <<>>, monthly_totals |-> <<>>,
     monthly_average |-> <<0, 1>>, monthly_avg2 |-> <<0, 1>>]

\* d[key] = value
Put(d, key, value) ==
    [k \in DOMAIN d \cup {key} |-> IF k = key THEN value ELSE d[k]]

(***************************************************************************)
(* Chase._read_csv_file: the body of its loop, one row at a time.          *)
(***************************************************************************)
\* The date column: `Transaction Date`, else `Posting Date`, else `Post Date`.
SDate(row) ==
    Get(row, "Transaction Date", Get(row, "Posting Date", Get(row, "Post Date", <<>>)))

\* A bug the claims must exclude: the end of the range is inclusive.
OutOfRangeEndInclusive(date, s, e) ==
    (s # 0 /\ date < s) \/ (e # 0 /\ date > e)

\* (start and date < start) or (end and date >= end): 0 is falsy.
OutOfRange(date, s, e) ==
    (s # 0 /\ date < s) \/ (e # 0 /\ date >= e)

\* str(row): the whole content of the row, `transaction_date` included. Two
\* rows have the same str() exactly when they are the same dict, so the row
\* itself stands for its signature.
RowKey(row) == row

\* A bug the claims must exclude: a row seen before is dropped whatever the
\* file it was seen in.
IsDuplicateAnyFile(fbr, key, fname) ==
    key \in DOMAIN fbr

\* key in self.filenames_by_row and filename != self.filenames_by_row[key]
IsDuplicate(fbr, key, fname) ==
    key \in DOMAIN fbr /\ fname # fbr[key]

\* A bug the claims must exclude: `Type` is preferred to `Category`.
ResolveCategoryTypeFirst(merchant, row) ==
    Get(categories_by_merchant, merchant,
        Get(row, "Type", Get(row, "Category", "<None>")))

\* self.categories_by_merchant.get(merchant,
\*     row.get("Category", row.get("Type", "<None>")))
ResolveCategory(merchant, row) ==
    Get(categories_by_merchant, merchant,
        Get(row, "Category", Get(row, "Type", "<None>")))

\* A bug the claims must exclude: the monthly bucket is not updated.
AccumulateNoMonth(cats, category, merchant, row) ==
    LET amount == row["Amount"]
        cdata == Get(cats, category, CategoryData)
        mdata == Get(cdata.merchants, merchant, MerchantData)
    IN  Put(cats, category,
            [cdata EXCEPT
                !.total = @ + amount,
                !.count = @ + 1,
                !.merchants = Put(@, merchant,
                    [total |-> mdata.total + amount,
                     count |-> mdata.count + 1,
                     transactions |-> Append(mdata.transactions, row)])])

\* The accumulation of an accepted row: the category (created if absent), the
\* merchant inside it (created if absent), the monthly bucket of the row's
\* year and month (created if absent).
Accumulate(cats, category, merchant, row) ==
    LET amount == row["Amount"]
        month == StrftimeYm(row["transaction_date"])
        cdata == Get(cats, category, CategoryData)
        mdata == Get(cdata.merchants, merchant, MerchantData)
    IN  Put(cats, category,
            [cdata EXCEPT
                !.total = @ + amount,
                !.count = @ + 1,
                !.merchants = Put(@, merchant,
                    [total |-> mdata.total + amount,
                     count |-> mdata.count + 1,
                     transactions |-> Append(mdata.transactions, row)]),
                !.monthly_totals = Put(@, month, Get(@, month, 0) + amount)])

\* One iteration of `for row in csv_reader`: the aggregates and the dedup map
\* after it, with the branch taken (`outcome`) and what was derived on the way.
ReadCsvRow(cats, fbr, fname, row, s, e) ==
    LET date == Mktime(SDate(row))
        stamped == Put(row, "transaction_date", date)
        key == RowKey(stamped)
        merchant == NormalizeMerchant(row["Description"], startswith_aliases, in_aliases)
        category == ResolveCategory(merchant, stamped)
    IN  IF OutOfRange(date, s, e)
        THEN [categories |-> cats, filenames_by_row |-> fbr,
              outcome |-> "out_of_range", row |-> row, date |-> date,
              merchant |-> <<>>, category |-> ""]
        ELSE IF IsDuplicate(fbr, key, fname)
        THEN [categories |-> cats, filenames_by_row |-> fbr,
              outcome |-> "duplicate", row |-> stamped, date |-> date,
              merchant |-> <<>>, category |-> ""]
        ELSE [categories |-> Accumulate(cats, category, merchant, stamped),
              filenames_by_row |-> Put(fbr, key, fname),
              outcome |-> "accepted", row |-> stamped, date |-> date,
              merchant |-> merchant, category |-> category]

(***************************************************************************)
(* The inputs of the loader.                                               *)
(***************************************************************************)
\* Rows a file may hold, at most.
MaxRows == 2

\* Files read_input_files is given, at most (a name may be listed twice).
MaxFiles == 2

\* The names of the files, in the order in which a run first names them.
FileOrder == <<"a.csv", "b.csv">>

FileNames == Range(FileOrder)

\* --start and --end where given; 0 stands for a bound that is not given.
WindowStart == Mktime(<<2, 1, 2024>>)

WindowEnd == Mktime(<<3, 1, 2024>>)

\* A credit-card row (`Transaction Date` and `Post Date`), its description in
\* lower case, bought the day before WindowStart and posted on it. Its
\* merchant has an alias and an override of its category.
RowTj ==
    ("Transaction Date" :> <<1, 31, 2024>>) @@ ("Post Date" :> <<2, 1, 2024>>) @@
    ("Description" :> <<"t", "j", "1">>) @@ ("Category" :> "Groceries") @@
    ("Type" :> "Sale") @@ ("Amount" :> -4500)

\* A row of a merchant without alias or override, with `Category` and
\* `Type`, dated WindowStart.
RowAtm ==
    ("Transaction Date" :> <<2, 1, 2024>>) @@ ("Description" :> <<"A", "T", "M">>) @@
    ("Category" :> "Food") @@ ("Type" :> "Sale") @@ ("Amount" :> -2000)

\* A checking-account row (`Posting Date`, `Type`, no `Category`), dated the
\* last day before WindowEnd.
RowNf ==
    ("Posting Date" :> <<2, 29, 2024>>) @@ ("Description" :> <<"N", "F">>) @@
    ("Type" :> "ACH_DEBIT") @@ ("Amount" :> -1500)

\* A credit of the same merchant, with neither `Category` nor `Type`, dated
\* WindowEnd.
RowRefund ==
    ("Post Date" :> <<3, 1, 2024>>) @@ ("Description" :> <<"R", "F">>) @@
    ("Amount" :> 1500)

Rows == {RowTj, RowAtm, RowNf, RowRefund}

\* The configuration of the loader's runs.
LoaderStartswithAliases == <<[alias |-> <<"T", "J">>, target |-> <<"T", "J">>]>>

LoaderInAliases == <<[alias |-> <<"F">>, target |-> <<"N", "E", "T", "F", "L", "I", "X">>]>>

LoaderCategoriesByMerchant == (<<"T", "J">> :> "Food")

(***************************************************************************)
(* The options, the reports, main and the browser where they are not run.  *)
(***************************************************************************)
\* `None` as the value of an option or of a focus.
Unset == "(None)"

\* The Namespace of a command line without options.
NoOptions ==
    [category |-> Unset, totals_only |-> FALSE, detail |-> FALSE,
     monthly |-> FALSE, averages_only |-> FALSE, barchart |-> FALSE,
     piechart |-> FALSE, recurring |-> FALSE, interactive |-> FALSE]

\* An empty dict has no keys to order.
NoOrder == [categories |-> <<>>, merchants |-> <<>>]

\* Nothing has been printed, returned or raised.
NoOutput ==
    [op |-> "", error |-> "", categories |-> <<>>, expenses |-> <<>>,
     income |-> <<>>, none_detected |-> FALSE]

\* No browser.
NoApp == [state |-> "off", focused |-> Unset, key |-> "", before |-> Unset]

UiIdle ==
    /\ order = NoOrder
    /\ options = NoOptions
    /\ out = NoOutput
    /\ pcM = "off"
    /\ ran = <<>>
    /\ nmonths = 0
    /\ error = ""
    /\ app = NoApp

(***************************************************************************)
(* Spec: Chase.read_input_files.                                           *)
(***************************************************************************)
NoRow ==
    [outcome |-> "none", row |-> <<>>, date |-> 0, merchant |-> <<>>,
     category |-> "", filename |-> ""]

\* The loader before read_input_files is called with bounds s and e.
LoadStart(s, e) ==
    /\ categories = <<>>
    /\ filenames_by_row = <<>>
    /\ start = s
    /\ end = e
    /\ files = <<>>
    /\ filename = ""
    /\ nrows = 0
    /\ pc = "idle"
    /\ fs = [f \in FileNames |-> <<>>]
    /\ closed = {}
    /\ last = NoRow
    /\ snapshots = <<>>

\* The loader where it is not run.
LoadIdle == LoadStart(0, 0)

NormIdle ==
    /\ pcN = "off"
    /\ description = <<>>
    /\ normalized = <<>>

Init ==
    /\ UiIdle
    /\ startswith_aliases = LoaderStartswithAliases
    /\ in_aliases = LoaderInAliases
    /\ categories_by_merchant = LoaderCategoriesByMerchant
    /\ \E s \in {0, WindowStart}, e \in {0, WindowEnd} : LoadStart(s, e)
    /\ NormIdle
    /\ RecIdle

\* `for filename in files: open(filename)`: the next file of the list. A name
\* is either one named before or the first unused name of FileOrder.
OpenFile(f) ==
    /\ pc = "idle"
    /\ Len(files) < MaxFiles
    /\ \/ f \in Range(files)
       \/ /\ Cardinality(Range(files)) < Len(FileOrder)
          /\ f = FileOrder[Cardinality(Range(files)) + 1]
    /\ files' = Append(files, f)
    /\ filename' = f
    /\ nrows' = 0
    /\ pc' = "reading"
    /\ UNCHANGED <<categories, filenames_by_row, start, end, fs, closed, last,
                   snapshots, configVars, normVars, recVars, uiVars>>

\* The loop body applied to `row`, the next row of the file being read.
HandleRow(row) ==
    LET r == ReadCsvRow(categories, filenames_by_row, filename, row, start, end)
    IN  /\ categories' = r.categories
        /\ filenames_by_row' = r.filenames_by_row
        /\ last' = [outcome |-> r.outcome, row |-> r.row, date |-> r.date,
                    merchant |-> r.merchant, category |-> r.category,
                    filename |-> filename]
        /\ nrows' = nrows + 1
        /\ UNCHANGED <<start, end, files, filename, pc, closed, snapshots,
                       configVars, normVars, recVars, uiVars>>

\* The reader yields a row of a file that has not been read this far before.
ReadNewRow(row) ==
    /\ pc = "reading"
    /\ filename \notin closed
    /\ nrows = Len(fs[filename])
    /\ nrows < MaxRows
    /\ fs' = [fs EXCEPT ![filename] = Append(@, row)]
    /\ HandleRow(row)

\* The reader yields a row of a file that has been read before: the same row.
ReadSameRow ==
    /\ pc = "reading"
    /\ nrows < Len(fs[filename])
    /\ fs' = fs
    /\ HandleRow(fs[filename][nrows + 1])

\* The reader is exhausted: the file is closed and the loop goes on.
EndOfFile ==
    /\ pc = "reading"
    /\ nrows = Len(fs[filename])
    /\ closed' = closed \cup {filename}
    /\ snapshots' = Append(snapshots, categories)
    /\ pc' = "idle"
    /\ UNCHANGED <<categories, filenames_by_row, start, end, files, filename,
                   nrows, fs, last, configVars, normVars, recVars, uiVars>>

\* read_input_files returns.
Return ==
    /\ pc = "idle"
    /\ pc' = "loaded"
    /\ UNCHANGED <<categories, filenames_by_row, start, end, files, filename,
                   nrows, fs, closed, last, snapshots, configVars, normVars, recVars,
                   uiVars>>

Next ==
    \/ \E f \in FileNames : OpenFile(f)
    \/ \E row \in Rows : ReadNewRow(row)
    \/ ReadSameRow
    \/ EndOfFile
    \/ Return

Spec == Init /\ [][Next]_vars

(***************************************************************************)
(* Claims about the loader (checked under Spec).                           *)
(***************************************************************************)
RECURSIVE SumValues(_)
\* The sum of the values of a dict of numbers.
SumValues(d) ==
    IF DOMAIN d = {} THEN 0
    ELSE LET k == CHOOSE x \in DOMAIN d : TRUE
         IN  d[k] + SumValues([x \in DOMAIN d \ {k} |-> d[x]])

RECURSIVE SumAmounts(_)
\* The sum of the Amounts of a list of rows.
SumAmounts(txns) ==
    IF txns = <<>> THEN 0 ELSE txns[1]["Amount"] + SumAmounts(Tail(txns))

\* The number of times `row` is stored in the aggregates `cats`.
Copies(cats, row) ==
    SumValues([c \in DOMAIN cats |->
        SumValues([m \in DOMAIN cats[c].merchants |->
            Cardinality({i \in 1..Len(cats[c].merchants[m].transactions) :
                            cats[c].merchants[m].transactions[i] = row})])])

\* The number of rows stored in the aggregates `cats`.
Stored(cats) ==
    SumValues([c \in DOMAIN cats |->
        SumValues([m \in DOMAIN cats[c].merchants |->
            Len(cats[c].merchants[m].transactions)])])

\* The row as it is stored: with its resolved date.
Stamp(row) == Put(row, "transaction_date", Mktime(SDate(row)))

\* C1: in every category, total = the sum of its merchants' totals = the sum
\* of its monthly totals = the sum of the Amounts of the transactions stored
\* under its merchants, and count = the sum of its merchants' counts; in every
\* merchant, total = the sum of its transactions' Amounts and count = the
\* number of its transactions. It holds after every row, of every file.
C1_AggregatesConsistent ==
    \A c \in DOMAIN categories :
        LET cdata == categories[c]
            ms == cdata.merchants
        IN  /\ cdata.total = SumValues([m \in DOMAIN ms |-> ms[m].total])
            /\ cdata.total = SumValues(cdata.monthly_totals)
            /\ cdata.total =
                 SumValues([m \in DOMAIN ms |-> SumAmounts(ms[m].transactions)])
            /\ cdata.count = SumValues([m \in DOMAIN ms |-> ms[m].count])
            /\ \A m \in DOMAIN ms :
                 /\ ms[m].total = SumAmounts(ms[m].transactions)
                 /\ ms[m].count = Len(ms[m].transactions)

\* C1's case: rows of two files have been ingested, and a category holds two
\* merchants, two monthly buckets and a merchant with two transactions.
C1_Witness ==
    /\ Len(files) = 2
    /\ files[1] # files[2]
    /\ nrows >= 1
    /\ \E c \in DOMAIN categories :
        /\ Cardinality(DOMAIN categories[c].merchants) >= 2
        /\ Cardinality(DOMAIN categories[c].monthly_totals) >= 2
        /\ \E m \in DOMAIN categories[c].merchants :
             categories[c].merchants[m].count >= 2
        /\ categories[c].total # 0

\* C2: when the loop body handles a row whose signature the map already holds,
\* then if the map names another file the row is dropped and neither the
\* aggregates nor the map change, and if it names the file being read the row
\* is accepted once more: one more copy of it is stored.
C2_CrossFileDuplicates ==
    [][ (nrows' = nrows + 1) =>
          LET row == Stamp(fs'[filename][nrows + 1])
              key == RowKey(row)
          IN  key \in DOMAIN filenames_by_row =>
                IF filenames_by_row[key] # filename
                THEN /\ last'.outcome = "duplicate"
                     /\ categories' = categories
                     /\ filenames_by_row' = filenames_by_row
                ELSE /\ last'.outcome = "accepted"
                     /\ Copies(categories', row) = Copies(categories, row) + 1
                     /\ Stored(categories') = Stored(categories) + 1
                     /\ filenames_by_row' = filenames_by_row
      ]_vars

\* C2's case: a row was accepted twice from one file and has just been
\* dropped on its appearance in another file.
C2_Witness ==
    /\ last.outcome = "duplicate"
    /\ last.filename # filenames_by_row[RowKey(last.row)]
    /\ Copies(categories, last.row) = 2

\* C3 as stated: a file listed twice gives the aggregates that the file
\* listed once gives.
C3_TwiceSameAsOnce ==
    ( /\ pc \in {"idle", "loaded"}
      /\ Len(files) = 2
      /\ files[1] = files[2] )
        => categories = snapshots[1]

\* The aggregates `twice` are the aggregates `once` with every total, count
\* and monthly total doubled and every transaction list repeated.
Doubled(once, twice) ==
    /\ DOMAIN twice = DOMAIN once
    /\ \A c \in DOMAIN once :
        /\ twice[c].total = 2 * once[c].total
        /\ twice[c].count = 2 * once[c].count
        /\ DOMAIN twice[c].monthly_totals = DOMAIN once[c].monthly_totals
        /\ \A k \in DOMAIN once[c].monthly_totals :
             twice[c].monthly_totals[k] = 2 * once[c].monthly_totals[k]
        /\ DOMAIN twice[c].merchants = DOMAIN once[c].merchants
        /\ \A m \in DOMAIN once[c].merchants :
             /\ twice[c].merchants[m].total = 2 * once[c].merchants[m].total
             /\ twice[c].merchants[m].count = 2 * once[c].merchants[m].count
             /\ twice[c].merchants[m].transactions =
                  once[c].merchants[m].transactions
                      \o once[c].merchants[m].transactions

\* C3, amended: a file listed twice gives the aggregates of the file listed
\* once with every total, count and monthly total doubled and every merchant's
\* transaction list repeated; they are the same only if no row is accepted.
C3_TwiceDoubles ==
    ( /\ pc \in {"idle", "loaded"}
      /\ Len(files) = 2
      /\ files[1] = files[2] )
        => /\ Doubled(snapshots[1], categories)
           /\ (categories = snapshots[1]) <=> (snapshots[1] = <<>>)

\* C3's case: a file with two accepted rows has been read twice.
C3_Witness ==
    /\ pc = "loaded"
    /\ Len(files) = 2
    /\ files[1] = files[2]
    /\ Stored(snapshots[1]) = 2
    /\ Stored(categories) = 4

\* The date d lies in [start, end), a bound of 0 being no bound.
InWindow(d) == (start = 0 \/ d >= start) /\ (end = 0 \/ d < end)

\* C4: a row is dropped by the range filter exactly when its date is before
\* a given start or at or after a given end; so a row dated start is kept, a
\* row dated end is dropped, a bound that is not given filters nothing, and
\* every row that contributes to the aggregates is dated within [start, end).
C4_HalfOpenWindow ==
    /\ last.outcome # "none" =>
         /\ (last.outcome = "out_of_range") <=> ~InWindow(last.date)
         /\ (start # 0 /\ last.date < start) => last.outcome = "out_of_range"
         /\ (end # 0 /\ last.date >= end) => last.outcome = "out_of_range"
         /\ (start # 0 /\ last.date = start /\ (end = 0 \/ start < end))
                => last.outcome # "out_of_range"
         /\ (start = 0 /\ end = 0) => last.outcome # "out_of_range"
         /\ last.outcome = "accepted" => InWindow(last.date)
    /\ \A c \in DOMAIN categories : \A m \in DOMAIN categories[c].merchants :
         \A i \in 1..Len(categories[c].merchants[m].transactions) :
            InWindow(Mktime(SDate(categories[c].merchants[m].transactions[i])))

\* C4's case: both bounds are given, a row dated exactly start has been
\* accepted and a row dated exactly end has just been dropped.
C4_Witness ==
    /\ start # 0
    /\ end # 0
    /\ last.outcome = "out_of_range"
    /\ last.date = end
    /\ \E c \in DOMAIN categories : \E m \in DOMAIN categories[c].merchants :
         \E i \in 1..Len(categories[c].merchants[m].transactions) :
            categories[c].merchants[m].transactions[i]["transaction_date"] = start

\* C7: every accepted row is stored under the category that
\* categories_by_merchant gives its normalized merchant, if it gives one;
\* else under the row's Category, if the row has one; else under its Type, if
\* it has one; else under "<None>".
C7_CategoryOfRow ==
    \A c \in DOMAIN categories : \A m \in DOMAIN categories[c].merchants :
        \A i \in 1..Len(categories[c].merchants[m].transactions) :
            LET row == categories[c].merchants[m].transactions[i]
            IN  /\ m = NormalizeMerchant(row["Description"],
                                         startswith_aliases, in_aliases)
                /\ c = IF m \in DOMAIN categories_by_merchant
                         THEN categories_by_merchant[m]
                       ELSE IF "Category" \in DOMAIN row THEN row["Category"]
                       ELSE IF "Type" \in DOMAIN row THEN row["Type"]
                       ELSE "<None>"

\* C7's case: the four ways of resolution have all happened: an override
\* against the row's own Category, a Category, a Type without Category, and
\* a row with neither.
C7_Witness ==
    /\ \E c \in DOMAIN categories : \E m \in DOMAIN categories[c].merchants :
         /\ m \in DOMAIN categories_by_merchant
         /\ categories[c].merchants[m].transactions[1]["Category"] # c
    /\ \E c \in DOMAIN categories : \E m \in DOMAIN categories[c].merchants :
         /\ m \notin DOMAIN categories_by_merchant
         /\ "Type" \in DOMAIN categories[c].merchants[m].transactions[1]
         /\ Get(categories[c].merchants[m].transactions[1], "Category", "") = c
    /\ \E c \in DOMAIN categories : \E m \in DOMAIN categories[c].merchants :
         /\ "Category" \notin DOMAIN categories[c].merchants[m].transactions[1]
         /\ Get(categories[c].merchants[m].transactions[1], "Type", "") = c
    /\ \E m \in DOMAIN Get(categories, "<None>", CategoryData).merchants :
         /\ "Category" \notin DOMAIN categories["<None>"].merchants[m].transactions[1]
         /\ "Type" \notin DOMAIN categories["<None>"].merchants[m].transactions[1]

(***************************************************************************)
(* SpecNormalize: _normalize_merchant applied to every description over a  *)
(* small alphabet under every pair of small alias tables.                  *)
(***************************************************************************)
MaxDescLen == 3

MaxAliases == 2

\* Upper-case, lower-case and mixed-case characters.
Chars == {"a", "A", "B"}

\* The alias keys of the tables: upper-case keys, and a key in mixed case as
\* the sample configuration writes them.
AliasKeys == {<<"A">>, <<"B">>, <<"A", "B">>, <<"a", "B">>}

Descriptions == SeqsUpTo(Chars, MaxDescLen)

\* The ordered tables with distinct keys; the target of a key names the table
\* and the key, so that the entry that matched can be read off the result.
AliasTables(tag) ==
    {[i \in 1..Len(ks) |-> [alias |-> ks[i], target |-> <<tag>> \o ks[i]]] :
        ks \in {s \in SeqsUpTo(AliasKeys, MaxAliases) :
                    \A i, j \in 1..Len(s) : i # j => s[i] # s[j]}}

InitNormalize ==
    /\ UiIdle
    /\ startswith_aliases \in AliasTables("s")
    /\ in_aliases \in AliasTables("i")
    /\ categories_by_merchant = <<>>
    /\ LoadIdle
    /\ RecIdle
    /\ description \in Descriptions
    /\ pcN = "call"
    /\ normalized = <<>>

Normalize ==
    /\ pcN = "call"
    /\ normalized' = NormalizeMerchant(description, startswith_aliases, in_aliases)
    /\ pcN' = "done"
    /\ UNCHANGED <<configVars, loadVars, recVars, uiVars, description>>

NextNormalize == Normalize

SpecNormalize == InitNormalize /\ [][NextNormalize]_vars

(***************************************************************************)
(* Claims about _normalize_merchant (checked under SpecNormalize).         *)
(***************************************************************************)
\* C5: the result is the target of the first startswith alias (in table
\* order) that is a prefix of the upper-cased description; failing that, the
\* target of the first in alias that is a substring of it; failing that, the
\* upper-cased description. So a matching prefix alias beats every substring
\* alias, and an earlier matching alias beats a later, longer one.
C5_FirstMatchWins ==
    pcN = "done" =>
        LET m == Upper(description)
            sw == startswith_aliases
            ia == in_aliases
            SwMatch(i) == StartsWith(m, sw[i].alias)
            InMatch(i) == Contains(m, ia[i].alias)
            NoSw == \A i \in 1..Len(sw) : ~SwMatch(i)
            NoIn == \A i \in 1..Len(ia) : ~InMatch(i)
        IN  /\ \A i \in 1..Len(sw) :
                (SwMatch(i) /\ \A j \in 1..(i - 1) : ~SwMatch(j))
                    => normalized = sw[i].target
            /\ \A i \in 1..Len(ia) :
                (NoSw /\ InMatch(i) /\ \A j \in 1..(i - 1) : ~InMatch(j))
                    => normalized = ia[i].target
            /\ (NoSw /\ NoIn) => normalized = m

\* C5's case: two prefix aliases match, the later one the longer, a substring
\* alias matches too, and the first prefix alias is the one returned.
C5_Witness ==
    /\ pcN = "done"
    /\ Len(startswith_aliases) = 2
    /\ Len(in_aliases) >= 1
    /\ StartsWith(Upper(description), startswith_aliases[1].alias)
    /\ StartsWith(Upper(description), startswith_aliases[2].alias)
    /\ Len(startswith_aliases[2].alias) > Len(startswith_aliases[1].alias)
    /\ Contains(Upper(description), in_aliases[1].alias)
    /\ normalized = startswith_aliases[1].target
    /\ normalized # startswith_aliases[2].target
    /\ normalized # in_aliases[1].target

\* C6: with a single alias k -> t, a description that (as written) starts
\* with k is mapped to t when the alias is a startswith alias, and a
\* description that contains k is mapped to t when it is an in alias, for
\* every k, keys in mixed case included.
C6_SingleAliasMaps ==
    pcN = "done" =>
        /\ ( /\ Len(startswith_aliases) = 1
             /\ Len(in_aliases) = 0
             /\ StartsWith(description, startswith_aliases[1].alias) )
                => normalized = startswith_aliases[1].target
        /\ ( /\ Len(in_aliases) = 1
             /\ Len(startswith_aliases) = 0
             /\ Contains(description, in_aliases[1].alias) )
                => normalized = in_aliases[1].target

(***************************************************************************)
(* SpecMonthly: the detector, in expense mode, on the histories of k equal *)
(* debits dated the 15th of k consecutive months, at several times of run. *)
(***************************************************************************)
\* The longest history, in months.
MaxMonths == 5

\* The amounts a, in cents: 0.01, 45.00 and 50.00.
MonthlyAmounts == {1, 4500, 5000}

\* The <<year, month>> of the first transaction.
FirstMonths == {<<y, m>> : y \in {2024, 2025}, m \in 1..12}

\* The 15th of the i-th month after <<year, month>> ym.
Fifteenth(ym, i) ==
    <<((ym[2] - 1 + i) % 12) + 1, 15, ym[1] + ((ym[2] - 1 + i) \div 12)>>

\* k transactions of -a on the 15th of the k months from ym on.
MonthlyHistory(ym, k, a) ==
    [i \in 1..k |-> Txn(Mktime(Fifteenth(ym, i - 1)), -a)]

\* The list in reverse.
Reverse(s) == [i \in 1..Len(s) |-> s[Len(s) + 1 - i]]

\* The times of the run: before, within and after the two years that follow
\* the histories; 2026-03-15 is 2 * 365 days after 2024-03-15.
MonthlyNows ==
    {TimeAt(<<1, 1, 2025>>, 0), TimeAt(<<3, 15, 2026>>, 0),
     TimeAt(<<3, 15, 2026>>, 1), TimeAt(<<11, 5, 2026>>, 1)}

InitMonthly ==
    /\ UiIdle
    /\ startswith_aliases = <<>>
    /\ in_aliases = <<>>
    /\ categories_by_merchant = <<>>
    /\ LoadIdle
    /\ NormIdle
    /\ pcR = "call"
    /\ \E ym \in FirstMonths, k \in 3..MaxMonths, a \in MonthlyAmounts :
         transactions \in {MonthlyHistory(ym, k, a), Reverse(MonthlyHistory(ym, k, a))}
    /\ income = FALSE
    /\ now \in MonthlyNows
    /\ result = None

SpecMonthly == InitMonthly /\ [][NextRecur]_vars

\* The history is k >= 3 transactions of one amount -a < 0 dated the 15th of
\* k consecutive months.
IsMonthlyHistory(txns) ==
    /\ Len(txns) >= 3
    /\ \A i \in 1..Len(txns) :
         /\ txns[i]["Amount"] < 0
         /\ txns[i]["Amount"] = txns[1]["Amount"]
    /\ LET dates == Sorted([i \in 1..Len(txns) |-> txns[i]["transaction_date"]])
           first == StrftimeYm(dates[1])
       IN  \A i \in 1..Len(txns) : dates[i] = Mktime(Fifteenth(first, i - 1))

\* The date of the latest transaction of the list.
Latest(txns) == Max({txns[i]["transaction_date"] : i \in 1..Len(txns)})

\* The result is the pattern with month_count k, average_amount a and
\* annualized_amount 12 * a.
IsPattern(r, k, a) ==
    /\ r # None
    /\ r.merchant = MerchantName
    /\ r.count = k
    /\ FracEq(r.avg_amount, <<a, 1>>)
    /\ FracEq(r.annual_cost, <<12 * a, 1>>)

\* C8 as stated: such a history is reported with month_count = k,
\* average_amount = a and annualized_amount = 12 * a whatever the time of
\* the run.
C8_MonthlyAlwaysReported ==
    (pcR = "done" /\ ~income /\ IsMonthlyHistory(transactions)) =>
        IsPattern(result, Len(transactions), -transactions[1]["Amount"])

\* C8, amended: such a history is reported with month_count = k,
\* average_amount = a and annualized_amount = 12 * a if its latest
\* transaction is dated no more than 2 * 365 days before the time of the run,
\* and is not reported otherwise.
C8_MonthlyReportedIfRecent ==
    (pcR = "done" /\ ~income /\ IsMonthlyHistory(transactions)) =>
        IF 2 * Latest(transactions) >= now - 2 * (2 * 365)
        THEN IsPattern(result, Len(transactions), -transactions[1]["Amount"])
        ELSE result = None

\* C8's case: the 2024 TRADER JOES scenario (three debits of 45.00 from
\* 2024-01-15 on) run exactly 2 * 365 days after its last transaction is
\* reported as 3 / 45.00 / 540.00.
C8_Witness ==
    /\ pcR = "done"
    /\ transactions = MonthlyHistory(<<2024, 1>>, 3, 4500)
    /\ now = TimeAt(<<3, 15, 2026>>, 0)
    /\ result = [merchant |-> MerchantName, count |-> 3,
                 avg_amount |-> <<13500, 3>>, annual_cost |-> <<162000, 3>>]

(***************************************************************************)
(* SpecRecur: the detector, in both modes, on every list of up to MaxTxns  *)
(* transactions of a debit, a credit or a zero amount on four monthly      *)
(* dates.                                                                  *)
(***************************************************************************)
MaxTxns == 4

RecurDates ==
    {Mktime(<<1, 15, 2026>>), Mktime(<<2, 15, 2026>>), Mktime(<<3, 15, 2026>>),
     Mktime(<<4, 15, 2026>>)}

RecurAmounts == {-5000, 0, 5000}

InitRecur ==
    /\ UiIdle
    /\ startswith_aliases = <<>>
    /\ in_aliases = <<>>
    /\ categories_by_merchant = <<>>
    /\ LoadIdle
    /\ NormIdle
    /\ pcR = "call"
    /\ transactions \in
         SeqsUpTo({Txn(d, a) : d \in RecurDates, a \in RecurAmounts}, MaxTxns)
    /\ income \in BOOLEAN
    /\ now = TimeAt(<<11, 5, 2026>>, 1)
    /\ result = None

SpecRecur == InitRecur /\ [][NextRecur]_vars

\* The number of transactions of the sign the mode asks for.
OfSign(txns, inc) ==
    Cardinality({i \in 1..Len(txns) :
        IF inc THEN txns[i]["Amount"] > 0 ELSE txns[i]["Amount"] < 0})

\* C9: a merchant with fewer than 3 transactions, or with fewer than 3
\* transactions of the sign of the mode, is not reported in that mode.
C9_FewerThanThreeNeverReported ==
    (pcR = "done" /\ (Len(transactions) < 3 \/ OfSign(transactions, income) < 3))
        => result = None

\* C9's case: four transactions on four monthly dates with equal absolute
\* amounts, only two of them of the sign of the mode, are not reported.
C9_Witness ==
    /\ pcR = "done"
    /\ Len(transactions) = 4
    /\ OfSign(transactions, income) = 2
    /\ OfSign(transactions, ~income) = 2
    /\ Cardinality({transactions[i]["transaction_date"] : i \in 1..4}) = 4
    /\ result = None

(***************************************************************************)
(* SpecGaps: the detector, in expense mode, on histories given by a first  *)
(* date and the gaps between consecutive dates.                            *)
(***************************************************************************)
\* The most gaps of a history (one less than its transactions).
MaxGaps == 3

\* Gaps in days: the 5 days of the rejected example, and the days around the
\* two bounds of the interval.
Gaps == {5, 19, 20, 21, 39, 40, 41}

FirstDays == {Mktime(<<1, 1, 2026>>), Mktime(<<1, 31, 2026>>)}

\* The amount of every transaction of a history.
GapAmounts == {-10000, -999}

RECURSIVE DatesFrom(_, _)
\* The dates that start at `first` and follow each other at the gaps `gs`.
DatesFrom(first, gs) ==
    IF gs = <<>> THEN <<first>>
    ELSE <<first>> \o DatesFrom(first + gs[1], Tail(gs))

InitGaps ==
    /\ UiIdle
    /\ startswith_aliases = <<>>
    /\ in_aliases = <<>>
    /\ categories_by_merchant = <<>>
    /\ LoadIdle
    /\ NormIdle
    /\ pcR = "call"
    /\ \E first \in FirstDays, gs \in SeqsUpTo(Gaps, MaxGaps) :
         LET dates == DatesFrom(first, gs)
         IN  \E a \in GapAmounts :
               transactions \in
                 { [i \in 1..Len(dates) |-> Txn(dates[i], a)],
                   Reverse([i \in 1..Len(dates) |-> Txn(dates[i], a)]) }
    /\ income = FALSE
    /\ now \in {TimeAt(<<11, 5, 2026>>, 1), TimeAt(<<11, 5, 2029>>, 1)}
    /\ result = None

SpecGaps == InitGaps /\ [][NextRecur]_vars

\* The (date, amount) pairs the gates after the outlier filter work with.
PostOutlier(txns, inc) ==
    IF SignFiltered(txns, inc) = <<>> THEN <<>>
    ELSE OutlierFiltered(SignFiltered(txns, inc))

\* Their dates, ascending.
PostOutlierDates(txns, inc) ==
    Sorted([i \in 1..Len(PostOutlier(txns, inc)) |-> PostOutlier(txns, inc)[i].date])

\* Every gate but the interval gate lets the history pass.
PassesOtherGates(txns, inc, t) ==
    LET data == PostOutlier(txns, inc)
        amounts == [i \in 1..Len(data) |-> data[i].amount]
    IN  /\ Len(data) >= 3
        /\ Cardinality({StrftimeYm(data[i].date) : i \in 1..Len(data)}) >= 3
        /\ \A i \in 1..Len(data) :
             5 * Abs(amounts[i] - MedianOf(amounts)) <= MedianOf(amounts)
        /\ 2 * PostOutlierDates(txns, inc)[Len(data)] >= t - 2 * (2 * 365)

\* C10: the mean gap between the consecutive (sorted, post-outlier) dates of
\* every reported pattern is at least 20 and at most 40 days; a history whose
\* mean gap is exactly 20 or exactly 40 days is reported if it passes the
\* other gates; 4 transactions spaced 5 days apart are never reported.
C10_MeanGapWithin20And40 ==
    pcR = "done" =>
        LET dates == PostOutlierDates(transactions, income)
            n == Len(dates)
            total == Sum([i \in 1..(n - 1) |-> dates[i + 1] - dates[i]])
        IN  /\ result # None =>
                 /\ n >= 2
                 /\ 20 * (n - 1) <= total
                 /\ total <= 40 * (n - 1)
            /\ ( /\ n >= 2
                 /\ total = 20 * (n - 1) \/ total = 40 * (n - 1)
                 /\ PassesOtherGates(transactions, income, now) )
                   => result # None
            /\ ( /\ Len(transactions) = 4
                 /\ n = 4
                 /\ \A i \in 1..3 : dates[i + 1] - dates[i] = 5 )
                   => result = None

\* C10's case: a reported pattern whose mean gap is exactly 20 days.
C10_Witness ==
    /\ pcR = "done"
    /\ result # None
    /\ LET dates == PostOutlierDates(transactions, income)
       IN  dates[Len(dates)] - dates[1] = 20 * (Len(dates) - 1)

(***************************************************************************)
(* SpecAmounts: the detector, in both modes, on histories of one           *)
(* transaction a month whose amounts vary around a median of 100.00.       *)
(***************************************************************************)
\* The longest history, in transactions.
MaxAmts == 4

\* Absolute amounts in cents: 100.00; the edges of its 20% band and the cent
\* beyond each; 46.00 and 90.00, 125.00, and the 1000.00 of the example.
AmountSet == {4600, 7999, 8000, 9000, 10000, 12000, 12001, 12500, 100000}

\* The i-th transaction of a history is dated the 15th of the i-th month of
\* 2026; its amount has the sign of the mode.
AmountHistory(as, inc) ==
    [i \in 1..Len(as) |->
        Txn(Mktime(Fifteenth(<<2026, 1>>, i - 1)), IF inc THEN as[i] ELSE -as[i])]

InitAmounts ==
    /\ UiIdle
    /\ startswith_aliases = <<>>
    /\ in_aliases = <<>>
    /\ categories_by_merchant = <<>>
    /\ LoadIdle
    /\ NormIdle
    /\ pcR = "call"
    /\ income \in BOOLEAN
    /\ \E k \in 3..MaxAmts : \E as \in [1..k -> AmountSet] :
         transactions = AmountHistory(as, income)
    /\ now = TimeAt(<<11, 5, 2026>>, 1)
    /\ result = None

SpecAmounts == InitAmounts /\ [][NextRecur]_vars

\* The absolute amounts of the list.
AbsAmounts(txns) == [i \in 1..Len(txns) |-> Abs(txns[i]["Amount"])]

\* The post-outlier absolute amounts.
PostOutlierAmounts(txns, inc) ==
    [i \in 1..Len(PostOutlier(txns, inc)) |-> PostOutlier(txns, inc)[i].amount]

\* a lies within 20% of m, bounds included: 0.8 m <= a <= 1.2 m.
InBand(a, m) == 8 * m <= 10 * a /\ 10 * a <= 12 * m

\* Every gate but the consistency gate lets the history pass.
PassesGatesButAmounts(txns, inc, t) ==
    LET data == PostOutlier(txns, inc)
    IN  /\ Len(txns) >= 3
        /\ Len(data) >= 3
        /\ Cardinality({StrftimeYm(data[i].date) : i \in 1..Len(data)}) >= 3
        /\ ~IntervalRejected(PostOutlierDates(txns, inc))
        /\ ~TooOld(PostOutlierDates(txns, inc)[Len(data)], t)

\* The list holds exactly the absolute amounts as, in some order.
HasAmounts(txns, as) ==
    Sorted(AbsAmounts(txns)) = Sorted(as)

\* C11: every post-outlier absolute amount of a reported pattern lies within
\* 20% of the post-outlier median, bounds included; one amount outside the
\* band rejects the merchant, and a history whose amounts all lie in the band
\* (on its edges too) is reported if it passes the other gates; the amounts
\* -100, -100, -100, -1000 keep the 1000 through the outlier filter and are
\* rejected.
C11_AmountsWithinTwentyPercent ==
    pcR = "done" =>
        LET amounts == PostOutlierAmounts(transactions, income)
            sorted == Sorted(amounts)
            m == sorted[(Len(sorted) \div 2) + 1]
        IN  /\ result # None =>
                 \A i \in 1..Len(amounts) : InBand(amounts[i], m)
            /\ (Len(amounts) >= 3 /\ \E i \in 1..Len(amounts) : ~InBand(amounts[i], m))
                 => result = None
            /\ ( /\ PassesGatesButAmounts(transactions, income, now)
                 /\ \A i \in 1..Len(amounts) : InBand(amounts[i], m) )
                 => result # None
            /\ (~income /\ HasAmounts(transactions, <<10000, 10000, 10000, 100000>>))
                 => /\ result = None
                    /\ \E i \in 1..Len(amounts) : amounts[i] = 100000

\* C11's case: the amounts -100, -100, -100, -1000 of four consecutive
\* months: the 1000 is still there after the outlier filter, and the merchant
\* is rejected.
C11_Witness ==
    /\ pcR = "done"
    /\ ~income
    /\ HasAmounts(transactions, <<10000, 10000, 10000, 100000>>)
    /\ Len(PostOutlier(transactions, income)) = 4
    /\ result = None

\* The element of rank r (from 0) of the amounts in ascending order: the
\* value v with at most r amounts below it and more than r amounts not above.
OfRank(amounts, r) ==
    CHOOSE v \in Range(amounts) :
        /\ Cardinality({i \in 1..Len(amounts) : amounts[i] < v}) <= r
        /\ Cardinality({i \in 1..Len(amounts) : amounts[i] <= v}) > r

\* For an even number n of amounts, the lower (rank n/2 - 1) and the upper
\* (rank n/2) of the two middle elements; for an odd n, the middle element.
LowerMiddle(amounts) == OfRank(amounts, (Len(amounts) - 1) \div 2)

UpperMiddle(amounts) == OfRank(amounts, Len(amounts) \div 2)

\* What the detector decides when Med is the median of both of its uses:
\* the outlier filter keeps the amounts >= 0.5 x Med of the sign-filtered
\* amounts, and the kept amounts must lie within 20% of their Med.
DecidesWith(Med(_), txns, inc, t) ==
    LET signed == SignFiltered(txns, inc)
        first == Med([i \in 1..Len(signed) |-> signed[i].amount])
        kept == SelectSeq(signed, LAMBDA p : 2 * p.amount >= first)
        amounts == [i \in 1..Len(kept) |-> kept[i].amount]
        dates == Sorted([i \in 1..Len(kept) |-> kept[i].date])
    IN  /\ Len(txns) >= 3
        /\ Len(signed) >= 3
        /\ Len(kept) >= 3
        /\ Cardinality({StrftimeYm(kept[i].date) : i \in 1..Len(kept)}) >= 3
        /\ \A i \in 1..Len(amounts) : InBand(amounts[i], Med(amounts))
        /\ ~IntervalRejected(dates)
        /\ ~TooOld(dates[Len(dates)], t)

\* C12 as stated: the median of the outlier filter and of the consistency
\* check is, for an even number of amounts, the lower of the two middle
\* elements.
C12_LowerMedian ==
    pcR = "done" =>
        (result # None <=> DecidesWith(LowerMiddle, transactions, income, now))

\* C12, amended: the median of the outlier filter and of the consistency
\* check is the element at index floor(n / 2), counted from 0, of the amounts
\* in ascending order: for an even number n of amounts the upper of the two
\* middle elements, with no averaging.
C12_UpperMedian ==
    pcR = "done" =>
        /\ result # None <=> DecidesWith(UpperMiddle, transactions, income, now)
        /\ Len(transactions) % 2 = 0 =>
             LET sorted == Sorted(AbsAmounts(transactions))
                 n == Len(sorted)
             IN  /\ UpperMiddle(sorted) = sorted[n \div 2 + 1]
                 /\ LowerMiddle(sorted) = sorted[n \div 2]

\* C12's case: the four amounts 100, 100, 125, 125 are reported, because
\* 100 is within 20% of the upper middle element 125, while 125 is not within
\* 20% of the lower middle element 100.
C12_Witness ==
    /\ pcR = "done"
    /\ HasAmounts(transactions, <<10000, 10000, 12500, 12500>>)
    /\ result # None
    /\ ~DecidesWith(LowerMiddle, transactions, income, now)

\* C13: on every list of transactions (empty, short, of positive, negative
\* and zero amounts) and in either mode, the function returns None or a
\* pattern and raises nothing: where it divides by the median the median is
\* positive, where it divides by the number of intervals there are at least
\* two, and the lists it indexes are not empty.
C13_NeverRaises ==
    pcR = "done" =>
        /\ result = None \/ result.merchant = MerchantName
        /\ result.merchant # "ZeroDivisionError"
        /\ LET signed == SignFiltered(transactions, income)
               data == PostOutlier(transactions, income)
               amounts == [i \in 1..Len(data) |-> data[i].amount]
               months == {StrftimeYm(data[i].date) : i \in 1..Len(data)}
           IN  /\ (Len(transactions) >= 3 /\ Len(signed) >= 3) =>
                    /\ Len(signed) \div 2 + 1 \in 1..Len(signed)
                    /\ \A i \in 1..Len(signed) : signed[i].amount > 0
               /\ (Len(transactions) >= 3 /\ Len(data) >= 3
                     /\ Cardinality(months) >= 3) =>
                    /\ MedianOf(amounts) > 0
                    /\ Len(Intervals(PostOutlierDates(transactions, income))) >= 2

\* C13's case: a list that mixes three debits with a zero amount is analysed
\* in expense mode and a pattern is returned.
C13_Witness ==
    /\ pcR = "done"
    /\ ~income
    /\ Len(transactions) = 4
    /\ \E i \in 1..4 : transactions[i]["Amount"] = 0
    /\ OfSign(transactions, FALSE) = 3
    /\ result # None
    /\ result.merchant = MerchantName

(***************************************************************************)
(* dict order and sorted(): what the reports iterate.                      *)
(***************************************************************************)
\* The keys of a dict in insertion order, after d.setdefault(key, ...).
KeyAdded(keys, key) == IF key \in Range(keys) THEN keys ELSE Append(keys, key)

\* The insertion orders after the row's category and merchant are looked up
\* with setdefault.
OrderAdded(ord, category, merchant) ==
    [categories |-> KeyAdded(ord.categories, category),
     merchants |-> Put(ord.merchants, category,
                       KeyAdded(Get(ord.merchants, category, <<>>), merchant))]

\* The element of a set of one element. {F(x) : x \in {e}} computes e once,
\* however often F uses it.
Only(S) == CHOOSE x \in S : TRUE

\* One iteration of the loop of _read_csv_file on the loader's state
\* st = [categories, filenames_by_row, order].
LoadRow(st, fname, row, s, e) ==
    Only({ [categories |-> r.categories,
            filenames_by_row |-> r.filenames_by_row,
            order |-> IF r.outcome = "accepted"
                      THEN OrderAdded(st.order, r.category, r.merchant)
                      ELSE st.order] :
           r \in {ReadCsvRow(st.categories, st.filenames_by_row, fname, row, s, e)} })

RECURSIVE LoadFile(_, _, _, _, _)
\* _read_csv_file over the rows of one file: the aggregates, the dedup map
\* and the insertion orders after the last row.
LoadFile(rows, st, fname, s, e) ==
    IF rows = <<>> THEN st
    ELSE Only({ LoadFile(Tail(rows), next, fname, s, e) :
                next \in {LoadRow(st, fname, rows[1], s, e)} })

\* The loader's state before the first file.
NothingLoaded == [categories |-> <<>>, filenames_by_row |-> <<>>, order |-> NoOrder]

\* x < y for the fractions x and y (denominators > 0).
FracLess(x, y) == x[1] * y[2] < y[1] * x[2]

\* The sorted list `rest` with the entry e put after every entry whose key
\* is not greater than its own.
Inserted(rest, e) ==
    LET k == Cardinality({i \in 1..Len(rest) : ~FracLess(e.key, rest[i].key)})
    IN  SubSeq(rest, 1, k) \o <<e>> \o SubSeq(rest, k + 1, Len(rest))

RECURSIVE SortedByKey(_)
\* sorted(items, key=...) and list.sort(key=...) on a list of [key, item]
\* entries whose keys are fractions: ascending in the key, entries of equal
\* keys in the order of the list (the sort is stable).
SortedByKey(s) ==
    IF s = <<>> THEN <<>>
    ELSE Only({ Inserted(rest, s[Len(s)]) :
                rest \in {SortedByKey(SubSeq(s, 1, Len(s) - 1))} })

\* The items of the sorted entries.
ItemsOf(s) == [i \in 1..Len(s) |-> s[i].item]

\* sorted(self.categories.items(), key=lambda x: -abs(x[1].total)): the names.
CategoriesByAbsTotal(cats, ord) ==
    ItemsOf(SortedByKey([i \in 1..Len(ord.categories) |->
        [key |-> <<-Abs(cats[ord.categories[i]].total), 1>>,
         item |-> ord.categories[i]]]))

\* sorted(cdata.merchants.items(), key=lambda x: -abs(x[1].total)): the names.
MerchantsByAbsTotal(cdata, keys) ==
    ItemsOf(SortedByKey([i \in 1..Len(keys) |->
        [key |-> <<-Abs(cdata.merchants[keys[i]].total), 1>>, item |-> keys[i]]]))

\* sorted(cdata.merchants.items(), key=lambda x: x[1].total): the names.
MerchantsByTotal(cdata, keys) ==
    ItemsOf(SortedByKey([i \in 1..Len(keys) |->
        [key |-> <<cdata.merchants[keys[i]].total, 1>>, item |-> keys[i]]]))

\* `--category CATEGORY` is given and is not this category: the loop skips it.
Skipped(opts, category) == opts.category # Unset /\ opts.category # category

(***************************************************************************)
(* Chase.print_report.                                                     *)
(***************************************************************************)
\* What print_report prints: a line per category in sorted order, preceded,
\* unless --totals-only, by a line per merchant of the category.
PrintReportLines(cats, ord, opts) ==
    LET names == SelectSeq(CategoriesByAbsTotal(cats, ord),
                           LAMBDA c : ~Skipped(opts, c))
    IN  [i \in 1..Len(names) |->
            [category |-> names[i],
             listed |-> ~opts.totals_only,
             merchants |-> IF opts.totals_only THEN <<>>
                           ELSE MerchantsByAbsTotal(cats[names[i]],
                                                    ord.merchants[names[i]])]]

(***************************************************************************)
(* Chase.print_monthly_report.                                             *)
(***************************************************************************)
RECURSIVE Gcd(_, _)
Gcd(a, b) == IF b = 0 THEN a ELSE Gcd(b, a % b)

\* The float n / d (d > 0) as a fraction in lowest terms, so that equal
\* quotients are equal values.
Frac(n, d) ==
    LET g == Gcd(Abs(n), d) IN <<n \div g, d \div g>>

\* A bug the claims must exclude: the report also clears the monthly totals
\* it has summed.
MonthlyAveragesClearing(cdata, category_total, n) ==
    [cdata EXCEPT !.monthly_average = Frac(category_total, n),
                  !.monthly_avg2 = Frac(category_total, Cardinality(DOMAIN cdata.monthly_totals)),
                  !.monthly_totals = <<>>]

\* cdata.monthly_average = category_total / nmonths and
\* cdata.monthly_avg2 = category_total / len(months), both divisors not 0.
MonthlyAverages(cdata, category_total, n) ==
    [cdata EXCEPT !.monthly_average = Frac(category_total, n),
                  !.monthly_avg2 = Frac(category_total, Cardinality(DOMAIN cdata.monthly_totals))]

RECURSIVE MonthlyLoop(_, _, _, _, _, _)
\* The loop of print_monthly_report over the sorted categories `names`: the
\* aggregates and the lines printed when it ends, and the exception that
\* ended it, if any. A division by zero ends it at the category it visits.
MonthlyLoop(names, cats, ord, opts, n, lines) ==
    IF names = <<>> THEN [categories |-> cats, lines |-> lines, error |-> ""]
    ELSE IF Skipped(opts, names[1])
    THEN MonthlyLoop(Tail(names), cats, ord, opts, n, lines)
    ELSE LET c == names[1]
             cdata == cats[c]
             category_total == SumValues(cdata.monthly_totals)
             _nmonths == Cardinality(DOMAIN cdata.monthly_totals)
             listed == opts.detail /\ ~opts.averages_only
             line == [category |-> c, listed |-> listed,
                      merchants |-> IF listed
                                    THEN MerchantsByTotal(cdata, ord.merchants[c])
                                    ELSE <<>>]
         IN  IF n = 0
             THEN [categories |-> cats, lines |-> lines,
                   error |-> "ZeroDivisionError"]
             ELSE IF _nmonths = 0
             THEN [categories |->
                      Put(cats, c, [cdata EXCEPT
                                      !.monthly_average = Frac(category_total, n)]),
                   lines |-> lines, error |-> "ZeroDivisionError"]
             ELSE Only({ MonthlyLoop(Tail(names), next, ord, opts, n, ls) :
                         next \in {Put(cats, c, MonthlyAverages(cdata, category_total, n))},
                         ls \in {Append(lines, line)} })

\* print_monthly_report(nmonths).
PrintMonthlyReport(cats, ord, opts, n) ==
    MonthlyLoop(CategoriesByAbsTotal(cats, ord), cats, ord, opts, n, <<>>)

(***************************************************************************)
(* Chase._detect_recurring_merchants and Chase.print_recurring_report.     *)
(***************************************************************************)
\* (category, merchant) for every merchant of every category, in the order
\* the two nested loops over the dicts visit them.
RECURSIVE MerchantVisits(_, _)
MerchantVisits(names, ord) ==
    IF names = <<>> THEN <<>>
    ELSE [i \in 1..Len(ord.merchants[names[1]]) |->
             [category |-> names[1], merchant |-> ord.merchants[names[1]][i]]]
         \o MerchantVisits(Tail(names), ord)

RECURSIVE Concat(_)
\* The lists of a list, extended one after the other.
Concat(ss) == IF ss = <<>> THEN <<>> ELSE ss[1] \o Concat(Tail(ss))

RECURSIVE KeysOf(_)
\* The keys of merchants_data in insertion order: the merchants in the order
\* of their first visit.
KeysOf(visits) ==
    IF visits = <<>> THEN <<>>
    ELSE Only({ KeyAdded(keys, visits[Len(visits)].merchant) :
                keys \in {KeysOf(SubSeq(visits, 1, Len(visits) - 1))} })

\* A bug the claims must exclude: a merchant is analysed on the transactions
\* of the first category it appears under.
MerchantsDataFirstCategory(cats, visits, merchant) ==
    LET mine == SelectSeq(visits, LAMBDA v : v.merchant = merchant)
    IN  cats[mine[1].category].merchants[merchant].transactions

\* merchants_data[merchant]: the transactions of the merchant under every
\* category, in the order of the visits.
MerchantsData(cats, visits, merchant) ==
    LET mine == SelectSeq(visits, LAMBDA v : v.merchant = merchant)
    IN  Concat([i \in 1..Len(mine) |->
                  cats[mine[i].category].merchants[merchant].transactions])

\* _detect_recurring_merchants(income=inc) at time t: the results of the
\* merchants, in the order of merchants_data; a result that is None is not
\* appended.
DetectRecurringMerchants(cats, ord, inc, t) ==
    LET visits == MerchantVisits(ord.categories, ord)
        keys == KeysOf(visits)
        results == [i \in 1..Len(keys) |->
                       AnalyzeMerchantRecurrence(
                           keys[i], MerchantsData(cats, visits, keys[i]), inc, t)]
    IN  SelectSeq(results, LAMBDA r : r # None)

\* A bug the claims must exclude: the lists are sorted in ascending order.
SortedByAnnualCostAscending(recurring) ==
    ItemsOf(SortedByKey([i \in 1..Len(recurring) |->
        [key |-> recurring[i].annual_cost, item |-> recurring[i]]]))

\* recurring.sort(key=lambda x: -abs(x["annual_cost"]))
SortedByAnnualCost(recurring) ==
    ItemsOf(SortedByKey([i \in 1..Len(recurring) |->
        [key |-> <<-Abs(recurring[i].annual_cost[1]), recurring[i].annual_cost[2]>>,
         item |-> recurring[i]]]))

\* print_recurring_report at time t: the two sections it prints, or the
\* message that nothing was detected.
PrintRecurringReport(cats, ord, t) ==
    LET expenses == DetectRecurringMerchants(cats, ord, FALSE, t)
        incomes == DetectRecurringMerchants(cats, ord, TRUE, t)
        raised == \E i \in 1..Len(expenses \o incomes) :
                    (expenses \o incomes)[i] = [merchant |-> "ZeroDivisionError"]
    IN  IF raised
        THEN [expenses |-> <<>>, income |-> <<>>, none_detected |-> FALSE,
              error |-> "ZeroDivisionError"]
        ELSE IF expenses = <<>> /\ incomes = <<>>
        THEN [expenses |-> <<>>, income |-> <<>>, none_detected |-> TRUE,
              error |-> ""]
        ELSE [expenses |-> SortedByAnnualCost(expenses),
              income |-> SortedByAnnualCost(incomes),
              none_detected |-> FALSE, error |-> ""]

(***************************************************************************)
(* Chart: the getters of the data it plots.                                *)
(***************************************************************************)
\* cdata["total"], cdata["monthly_average"], cdata["monthly_totals"]: the
\* subscription of a CategoryData, a dataclass without __getitem__, raises
\* TypeError.
Subscript(cdata, field) == "TypeError"

\* Chart._get_category_totals and Chart._get_monthly_averages: sorted() calls
\* its key on every item of self.chase.categories.items(), and the key
\* subscripts the CategoryData; with no item, the lists returned are empty.
ChartCategories(cats, ord, field) ==
    IF ord.categories = <<>>
    THEN [categories |-> <<>>, error |-> ""]
    ELSE [categories |-> <<>>, error |-> Subscript(cats[ord.categories[1]], field)]

\* Chart._get_monthly_totals(category): self.chase.categories[category]
\* raises KeyError for a category that was not loaded; the subscription of
\* the CategoryData raises TypeError.
ChartMonthlyTotals(cats, category) ==
    IF category \notin DOMAIN cats
    THEN [categories |-> <<>>, error |-> "KeyError"]
    ELSE [categories |-> <<>>, error |-> Subscript(cats[category], "monthly_totals")]

(***************************************************************************)
(* The ledgers the reports are run on.                                     *)
(***************************************************************************)
\* Blocks of rows a ledger is made of, at most.
MaxBlocks == 2

\* The month span print_monthly_report is called with, at most.
MaxSpan == 2

\* A credit-card row: `Transaction Date`, `Category`.
CardRow(mdy, desc, category, amount) ==
    ("Transaction Date" :> mdy) @@ ("Description" :> desc) @@
    ("Category" :> category) @@ ("Type" :> "Sale") @@ ("Amount" :> amount)

\* A checking-account row: `Posting Date`, `Type`, no `Category`.
CheckingRow(mdy, desc, type, amount) ==
    ("Posting Date" :> mdy) @@ ("Description" :> desc) @@
    ("Type" :> type) @@ ("Amount" :> amount)

\* Three rows of one merchant, dated the 15th of January, February and
\* March 2026.
Rent == [i \in 1..3 |->
    CardRow(Fifteenth(<<2026, 1>>, i - 1), <<"R", "E", "N", "T">>, "Home", -100000)]

Gym == [i \in 1..3 |->
    CardRow(Fifteenth(<<2026, 1>>, i - 1), <<"G", "Y", "M">>, "Health", -5000)]

Pay == [i \in 1..3 |->
    CheckingRow(Fifteenth(<<2026, 1>>, i - 1), <<"P", "A", "Y">>, "ACH_CREDIT", 200000)]

Dividend == [i \in 1..3 |->
    CheckingRow(Fifteenth(<<2026, 1>>, i - 1), <<"D", "I", "V">>, "ACH_CREDIT", 5000)]

\* Single rows: a withdrawal and a credit without category of the same
\* absolute amount, and a reimbursement in the category of the gym that is
\* larger than what the gym costs.
Atm == <<CardRow(<<2, 1, 2026>>, <<"A", "T", "M">>, "Cash", -1500)>>

Credit ==
    << ("Post Date" :> <<2, 2, 2026>>) @@ ("Description" :> <<"C", "R">>) @@
       ("Amount" :> 1500) >>

Hsa == <<CardRow(<<2, 3, 2026>>, <<"H", "S", "A">>, "Health", 20000)>>

Blocks == {Rent, Gym, Pay, Dividend, Atm, Credit, Hsa}

\* The ledgers: up to MaxBlocks distinct blocks, one after the other.
Ledgers ==
    {Concat(bs) : bs \in {s \in SeqsUpTo(Blocks, MaxBlocks) :
                            \A i, j \in 1..Len(s) : i # j => s[i] # s[j]}}

\* The name of the one file of a ledger.
LedgerFile == "a.csv"

\* The state after read_input_files([LedgerFile], s, e) has read `rows`.
Loaded(rows, s, e) ==
    \E r \in {LoadFile(rows, NothingLoaded, LedgerFile, s, e)} :
        /\ categories = r.categories
        /\ filenames_by_row = r.filenames_by_row
        /\ order = r.order
        /\ start = s
        /\ end = e
        /\ files = <<LedgerFile>>
        /\ filename = LedgerFile
        /\ nrows = Len(rows)
        /\ pc = "loaded"
        /\ fs = [f \in FileNames |-> IF f = LedgerFile THEN rows ELSE <<>>]
        /\ closed = {LedgerFile}
        /\ last = NoRow
        /\ snapshots = <<r.categories>>

\* `--category`: not given, or a category that some of the ledgers hold.
CategoryOptions == {Unset, "Health"}

(***************************************************************************)
(* SpecReports: after read_input_files has returned, the reports, the      *)
(* chart getters and the recurrence detection are called in any order.     *)
(***************************************************************************)
MainIdle ==
    /\ pcM = "off"
    /\ ran = <<>>
    /\ nmonths = 0
    /\ error = ""

InitReports ==
    /\ startswith_aliases = <<>>
    /\ in_aliases = <<>>
    /\ categories_by_merchant = <<>>
    /\ \E rows \in Ledgers : Loaded(rows, 0, 0)
    /\ NormIdle
    /\ RecIdle
    /\ \E c \in CategoryOptions, t, d, a \in BOOLEAN :
         options = [NoOptions EXCEPT !.category = c, !.totals_only = t,
                                     !.detail = d, !.averages_only = a]
    /\ out = NoOutput
    /\ MainIdle
    /\ app = NoApp

\* The time of the reports run.
ReportTime == TimeAt(<<11, 5, 2026>>, 1)

\* What is left alone by an operation that reads Chase.categories.
ReportFrame ==
    UNCHANGED <<configVars, filenames_by_row, start, end, files, filename, nrows,
                pc, fs, closed, last, snapshots, normVars, recVars, order,
                options, pcM, ran, error, app>>

\* chase.print_report()
PrintReport ==
    /\ pc = "loaded"
    /\ out' = [NoOutput EXCEPT !.op = "print_report",
                               !.categories = PrintReportLines(categories, order, options)]
    /\ categories' = categories
    /\ nmonths' = nmonths
    /\ ReportFrame

\* chase.print_monthly_report(n)
PrintMonthly(n) ==
    /\ pc = "loaded"
    /\ LET r == PrintMonthlyReport(categories, order, options, n)
       IN  /\ categories' = r.categories
           /\ out' = [NoOutput EXCEPT !.op = "print_monthly_report",
                                      !.categories = r.lines, !.error = r.error]
    /\ nmonths' = n
    /\ ReportFrame

\* chase.print_recurring_report()
PrintRecurring ==
    /\ pc = "loaded"
    /\ LET r == PrintRecurringReport(categories, order, ReportTime)
       IN  out' = [NoOutput EXCEPT !.op = "print_recurring_report",
                                   !.expenses = r.expenses, !.income = r.income,
                                   !.none_detected = r.none_detected,
                                   !.error = r.error]
    /\ categories' = categories
    /\ nmonths' = nmonths
    /\ ReportFrame

\* chart._get_category_totals()
GetCategoryTotals ==
    /\ pc = "loaded"
    /\ LET r == ChartCategories(categories, order, "total")
       IN  out' = [NoOutput EXCEPT !.op = "_get_category_totals",
                                   !.categories = r.categories, !.error = r.error]
    /\ categories' = categories
    /\ nmonths' = nmonths
    /\ ReportFrame

\* chart._get_monthly_averages()
GetMonthlyAverages ==
    /\ pc = "loaded"
    /\ LET r == ChartCategories(categories, order, "monthly_average")
       IN  out' = [NoOutput EXCEPT !.op = "_get_monthly_averages",
                                   !.categories = r.categories, !.error = r.error]
    /\ categories' = categories
    /\ nmonths' = nmonths
    /\ ReportFrame

\* chart._get_monthly_totals(options.category)
GetMonthlyTotals ==
    /\ pc = "loaded"
    /\ LET r == ChartMonthlyTotals(categories, options.category)
       IN  out' = [NoOutput EXCEPT !.op = "_get_monthly_totals",
                                   !.categories = r.categories, !.error = r.error]
    /\ categories' = categories
    /\ nmonths' = nmonths
    /\ ReportFrame

NextReports ==
    \/ PrintReport
    \/ \E n \in 0..MaxSpan : PrintMonthly(n)
    \/ PrintRecurring
    \/ GetCategoryTotals
    \/ GetMonthlyAverages
    \/ GetMonthlyTotals

SpecReports == InitReports /\ [][NextReports]_vars

(***************************************************************************)
(* Claims about the operations that read Chase.categories (checked under   *)
(* SpecReports).                                                           *)
(***************************************************************************)
\* The aggregates as read_input_files left them.
AsLoaded == snapshots[1]

\* C14 as stated: once read_input_files has returned, no report, chart getter
\* or recurrence operation changes any field of any CategoryData or
\* MerchantData: the aggregates stay as they were loaded.
C14_SnapshotFrozen ==
    pc = "loaded" => categories = AsLoaded

\* The fields of a CategoryData that ingestion sets.
Ingested(cdata) ==
    [total |-> cdata.total, count |-> cdata.count,
     merchants |-> cdata.merchants, monthly_totals |-> cdata.monthly_totals]

\* C14, amended: once read_input_files has returned, no report, chart getter
\* or recurrence operation adds or removes a category or changes the total,
\* count, merchants (their totals, counts and transaction lists) or
\* monthly_totals of a category; print_report, print_recurring_report and the
\* chart getters change no field at all, and print_monthly_report(nmonths)
\* changes only monthly_average and monthly_avg2, of the categories it
\* visits, to the category's total divided by nmonths and by the number of
\* its months with data.
C14_OnlyAveragesChange ==
    [][ pc = "loaded" =>
          /\ DOMAIN categories' = DOMAIN categories
          /\ \A c \in DOMAIN categories :
               Ingested(categories'[c]) = Ingested(categories[c])
          /\ out'.op # "print_monthly_report" => categories' = categories
          /\ out'.op = "print_monthly_report" =>
               \A c \in DOMAIN categories :
                 IF \E i \in 1..Len(out'.categories) : out'.categories[i].category = c
                 THEN /\ nmonths' > 0
                      /\ FracEq(categories'[c].monthly_average,
                                <<categories[c].total, nmonths'>>)
                      /\ FracEq(categories'[c].monthly_avg2,
                                <<categories[c].total,
                                  Cardinality(DOMAIN categories[c].monthly_totals)>>)
                 ELSE categories'[c] = categories[c]
      ]_vars

\* C14's case: after the monthly report and then the recurrence report, a
\* category's monthly_average is no longer the 0.0 it was loaded with, while
\* the fields that ingestion set are as loaded.
C14_Witness ==
    /\ pc = "loaded"
    /\ out.op = "print_recurring_report"
    /\ ~out.none_detected
    /\ \E c \in DOMAIN categories :
         /\ categories[c].monthly_average # AsLoaded[c].monthly_average
         /\ categories[c].monthly_avg2 # categories[c].monthly_average
         /\ Ingested(categories[c]) = Ingested(AsLoaded[c])

\* The list of patterns is in descending order of annual_cost.
Descending(patterns) ==
    \A i \in 1..(Len(patterns) - 1) :
        ~FracLess(patterns[i].annual_cost, patterns[i + 1].annual_cost)

\* The merchants of the ledger that a mode reports: those for which the
\* detector, given the merchant's transactions of every category, returns a
\* pattern.
Detected(inc) ==
    LET visits == MerchantVisits(order.categories, order)
    IN  {m \in {visits[i].merchant : i \in 1..Len(visits)} :
            AnalyzeMerchantRecurrence(m, MerchantsData(categories, visits, m),
                                      inc, ReportTime) # None}

\* The merchants of a list of patterns.
MerchantsOf(patterns) == {patterns[i].merchant : i \in 1..Len(patterns)}

\* C16: print_recurring_report lists the expense patterns and, separately,
\* the income patterns, each list holding every detected merchant of its mode
\* once, in descending order of annual_cost; it prints 'No recurring
\* transactions detected.' exactly when both lists are empty, and then
\* nothing else.
C16_RecurringReportSorted ==
    out.op = "print_recurring_report" =>
        /\ out.error = ""
        /\ Descending(out.expenses)
        /\ Descending(out.income)
        /\ MerchantsOf(out.expenses) = Detected(FALSE)
        /\ MerchantsOf(out.income) = Detected(TRUE)
        /\ Len(out.expenses) = Cardinality(Detected(FALSE))
        /\ Len(out.income) = Cardinality(Detected(TRUE))
        /\ \A i \in 1..Len(out.expenses) : out.expenses[i].annual_cost[1] > 0
        /\ out.none_detected <=> (Detected(FALSE) = {} /\ Detected(TRUE) = {})
        /\ out.none_detected => (out.expenses = <<>> /\ out.income = <<>>)

\* C16's case: a ledger in which the cheaper subscription was loaded first:
\* the dearer subscription is listed first.
C16_Witness ==
    /\ out.op = "print_recurring_report"
    /\ Len(out.expenses) = 2
    /\ FracLess(out.expenses[2].annual_cost, out.expenses[1].annual_cost)
    /\ order.categories[1] = "Health"
    /\ out.expenses[1].merchant = <<"R", "E", "N", "T">>
    /\ ~out.none_detected

\* The position of a key in the insertion order `keys`.
PositionIn(keys, key) == CHOOSE i \in 1..Len(keys) : keys[i] = key

\* `names` lists exactly the keys `wanted`, each once, in descending order of
\* the absolute value of Total(key), keys of equal absolute totals in the
\* order in which they were inserted.
ListedByAbsTotal(names, wanted, keys, Total(_)) ==
    /\ Range(names) = wanted
    /\ Len(names) = Cardinality(wanted)
    /\ \A i \in 1..(Len(names) - 1) :
         \/ Abs(Total(names[i])) > Abs(Total(names[i + 1]))
         \/ /\ Abs(Total(names[i])) = Abs(Total(names[i + 1]))
            /\ PositionIn(keys, names[i]) < PositionIn(keys, names[i + 1])

\* The categories of the lines printed.
CategoriesListed == [i \in 1..Len(out.categories) |-> out.categories[i].category]

\* The categories a report visits: all, or the one of `--category`.
Wanted == {c \in DOMAIN categories : ~Skipped(options, c)}

\* The total of a category as listed.
CategoryTotal(c) == categories[c].total

\* C17: every category listing (print_report, print_monthly_report with a
\* month span > 0, the chart's category totals) visits the categories in
\* descending order of the absolute value of their total, categories of equal
\* absolute totals in the order of their creation during ingestion.
C17_CategoriesByAbsTotal ==
    /\ out.op = "print_report" =>
         ListedByAbsTotal(CategoriesListed, Wanted, order.categories, CategoryTotal)
    /\ (out.op = "print_monthly_report" /\ nmonths > 0) =>
         ListedByAbsTotal(CategoriesListed, Wanted, order.categories, CategoryTotal)
    /\ out.op = "_get_category_totals" =>
         /\ out.error = ""
         /\ ListedByAbsTotal(out.categories, DOMAIN categories, order.categories,
                             CategoryTotal)

\* The two reports alone list the categories as C17 says.
ReportsByAbsTotal ==
    out.op \in {"print_report", "print_monthly_report"} =>
        (out.error = "" =>
            ListedByAbsTotal(CategoriesListed, Wanted, order.categories, CategoryTotal))

\* C18: every listing of the merchants of a category (that of print_report,
\* that of the monthly report with --detail) is in descending order of the
\* absolute value of the merchants' totals, whatever their signs.
C18_MerchantsByAbsTotal ==
    out.op \in {"print_report", "print_monthly_report"} =>
        \A i \in 1..Len(out.categories) :
            LET line == out.categories[i]
                ms == categories[line.category].merchants
            IN  line.listed =>
                  /\ Range(line.merchants) = DOMAIN ms
                  /\ \A k \in 1..(Len(line.merchants) - 1) :
                       Abs(ms[line.merchants[k]].total)
                           >= Abs(ms[line.merchants[k + 1]].total)

\* print_report alone lists the merchants as C18 says.
PrintReportMerchantsByAbsTotal ==
    out.op = "print_report" => C18_MerchantsByAbsTotal

(***************************************************************************)
(* ChaseCLI.main.                                                          *)
(***************************************************************************)
\* localtime(date): the <<year, month, day>> of the day `date`.
LocalTime(date) ==
    LET z == date + 719468
        era == z \div 146097
        doe == z - era * 146097
        yoe == (doe - doe \div 1460 + doe \div 36524 - doe \div 146096) \div 365
        doy == doe - (365 * yoe + yoe \div 4 - yoe \div 100)
        mp == (5 * doy + 2) \div 153
        d == doy - (153 * mp + 2) \div 5 + 1
        m == IF mp < 10 THEN mp + 3 ELSE mp - 9
        y == yoe + era * 400
    IN  <<IF m <= 2 THEN y + 1 ELSE y, m, d>>

\* mktime((st.tm_year, st.tm_mon + 1, st.tm_mday, 0, 0, 0, 0, 0, -1)): the same
\* day of the next month; mktime normalizes a 13th month and a day past the
\* end of the month.
SameDayNextMonth(date) ==
    LET st == LocalTime(date)
    IN  Mktime(<<st[2] + 1, st[3], st[1]>>)

RECURSIVE MonthsBetween(_, _)
\* ChaseCLI._months_between(start, end)
MonthsBetween(s, e) ==
    IF s < e THEN 1 + MonthsBetween(SameDayNextMonth(s), e) ELSE 0

\* The transaction dates of the aggregates.
TransactionDates(cats) ==
    UNION {UNION {{cats[c].merchants[m].transactions[i]["transaction_date"] :
                      i \in 1..Len(cats[c].merchants[m].transactions)} :
                  m \in DOMAIN cats[c].merchants} :
           c \in DOMAIN cats}

\* ChaseCLI._get_earliest_latest_transactions: (0, 0) without transactions. A
\* date of 0 is not told from `no date yet`; no ledger holds one.
EarliestLatest(cats) ==
    IF TransactionDates(cats) = {} THEN <<0, 0>>
    ELSE <<Min(TransactionDates(cats)), Max(TransactionDates(cats))>>

\* self.charting
Charting(opts) == opts.barchart \/ opts.piechart

\* Lines 265-271 of main: what the chart options imply. `--category`
\* implies --monthly, --monthly implies --averages-only, and else
\* --averages-only implies --monthly; all of it only when charting.
ImpliedOptions(opts) ==
    IF ~Charting(opts) THEN opts
    ELSE LET o1 == IF opts.category # Unset
                   THEN [opts EXCEPT !.monthly = TRUE] ELSE opts
         IN  IF o1.monthly THEN [o1 EXCEPT !.averages_only = TRUE]
             ELSE IF o1.averages_only THEN [o1 EXCEPT !.monthly = TRUE]
             ELSE o1

\* ChaseApp(chase, start, end): __init__ sums cdata["total"] over the values
\* of chase.categories, the subscription of a CategoryData.
ChaseAppInit(cats, ord) ==
    IF ord.categories = <<>> THEN ""
    ELSE Subscript(cats[ord.categories[1]], "total")

\* The outcome of an operation that main calls: its name, the aggregates
\* after it, what it listed and the exception it raised.
Called(name, cats, lines, err) ==
    [op |-> name, categories |-> cats, lines |-> lines, error |-> err]

\* chart.display_*(): the getter of the chart that --barchart or --piechart
\* asks for.
Display(name, getter, cats) ==
    Called(name, cats, getter.categories, getter.error)

\* The calls of lines 294-318 of main, in order, up to the first that
\* raises.
Dispatch(cats, ord, opts, n, t) ==
    LET monthly == PrintMonthlyReport(cats, ord, opts, n)
        monthlyCall == Called("print_monthly_report", monthly.categories,
                              monthly.lines, monthly.error)
        recurring == PrintRecurringReport(cats, ord, t)
        chartOf(cs) ==
            IF opts.category # Unset
            THEN Display("display_monthly_category",
                         ChartMonthlyTotals(cs, opts.category), cs)
            ELSE IF opts.averages_only
            THEN Display("display_monthly_averages",
                         ChartCategories(cs, ord, "monthly_average"), cs)
            ELSE Display("display_category_totals",
                         ChartCategories(cs, ord, "total"), cs)
    IN  IF opts.interactive
        THEN <<Called("ChaseApp", cats, <<>>, ChaseAppInit(cats, ord))>>
        ELSE IF opts.recurring
        THEN <<Called("print_recurring_report", cats, <<>>, recurring.error)>>
        ELSE IF Charting(opts)
        THEN IF opts.monthly
             THEN IF monthly.error # "" THEN <<monthlyCall>>
                  ELSE <<monthlyCall, chartOf(monthly.categories)>>
             ELSE <<chartOf(cats)>>
        ELSE IF opts.monthly THEN <<monthlyCall>>
        ELSE <<Called("print_report", cats, PrintReportLines(cats, ord, opts), "")>>

(***************************************************************************)
(* SpecMain: one run of main on a ledger, under every combination of the   *)
(* report options and of --start and --end given or not.                   *)
(***************************************************************************)
\* Blocks of rows of the ledger of a run, at most.
MaxMainBlocks == 1

\* The files of a run hold at least one block of rows.
MainLedgers ==
    {Concat(bs) : bs \in {s \in SeqsUpTo(Blocks, MaxMainBlocks) :
                            /\ s # <<>>
                            /\ \A i, j \in 1..Len(s) : i # j => s[i] # s[j]}}

\* --start and --end where given.
MainStart == Mktime(<<2, 1, 2026>>)

MainEnd == Mktime(<<3, 1, 2026>>)

\* The command lines: argparse makes --barchart and --piechart exclusive.
MainOptions ==
    {[NoOptions EXCEPT !.category = c, !.monthly = m, !.averages_only = a,
                       !.barchart = (chart = "bar"), !.piechart = (chart = "pie"),
                       !.recurring = r, !.interactive = i] :
        c \in CategoryOptions, m \in BOOLEAN, a \in BOOLEAN,
        chart \in {"none", "bar", "pie"}, r \in BOOLEAN, i \in BOOLEAN}

InitMain ==
    /\ startswith_aliases = <<>>
    /\ in_aliases = <<>>
    /\ categories_by_merchant = <<>>
    /\ \E s \in {0, MainStart}, e \in {0, MainEnd} : LoadStart(s, e)
    /\ NormIdle
    /\ RecIdle
    /\ order = NoOrder
    /\ options \in MainOptions
    /\ out = NoOutput
    /\ pcM = "start"
    /\ ran = <<>>
    /\ nmonths = 0
    /\ error = ""
    /\ app = NoApp

\* main(), on the files whose rows are `rows`.
Main(rows) ==
    /\ pcM = "start"
    /\ \E opts \in {ImpliedOptions(options)},
          loaded \in {LoadFile(rows, NothingLoaded, LedgerFile, start, end)} :
         LET bounds == EarliestLatest(loaded.categories)
             s == IF start = 0 THEN bounds[1] ELSE start
             e == IF end = 0 THEN bounds[2] ELSE end
             n == MonthsBetween(s, e)
         IN  \E calls \in {Dispatch(loaded.categories, loaded.order, opts, n,
                                    ReportTime)} :
               /\ options' = opts
               /\ filenames_by_row' = loaded.filenames_by_row
               /\ order' = loaded.order
               /\ nmonths' = n
               /\ ran' = [i \in 1..Len(calls) |-> calls[i].op]
               /\ error' = calls[Len(calls)].error
               /\ categories' = calls[Len(calls)].categories
               /\ out' = [NoOutput EXCEPT
                            !.op = calls[Len(calls)].op,
                            !.categories = calls[Len(calls)].lines,
                            !.error = calls[Len(calls)].error]
               /\ snapshots' = <<loaded.categories>>
    /\ files' = <<LedgerFile>>
    /\ filename' = LedgerFile
    /\ nrows' = Len(rows)
    /\ fs' = [fs EXCEPT ![LedgerFile] = rows]
    /\ closed' = {LedgerFile}
    /\ pc' = "loaded"
    /\ pcM' = "done"
    /\ UNCHANGED <<configVars, start, end, last, normVars, recVars, app>>

NextMain == \E rows \in MainLedgers : Main(rows)

SpecMain == InitMain /\ [][NextMain]_vars

(***************************************************************************)
(* Claims about main, under SpecMain.                                      *)
(***************************************************************************)
\* The operations main called.
Ran == {ran[i] : i \in 1..Len(ran)}

\* C15: an invocation on a non-empty set of rows with parseable dates and
\* amounts, with --start and --end set or unset, computes the month span and
\* the averages of the categories without a division by zero.
C15_MainCompletes ==
    pcM = "done" => error # "ZeroDivisionError"

\* C19: in every invocation with --averages-only and without --interactive
\* and --recurring, with a chart or without one, print_monthly_report is
\* what runs and print_report never does.
C19_AveragesOnlyRunsMonthly ==
    [][(options.averages_only /\ ~options.interactive /\ ~options.recurring)
        => LET called == {ran'[i] : i \in 1..Len(ran')}
           IN  /\ "print_monthly_report" \in called
               /\ "print_report" \notin called]_vars

\* Where --averages-only comes with a chart, the monthly report runs first.
ChartedAveragesRunMonthly ==
    [][(options.averages_only /\ Charting(options)
            /\ ~options.interactive /\ ~options.recurring)
        => ran'[1] = "print_monthly_report"]_vars

(***************************************************************************)
(* SpecBrowser: `chase --interactive` after read_input_files has returned, *)
(* and the keys pressed in the browser.                                    *)
(***************************************************************************)
\* The chain of the panels, in the order of compose().
Panels == <<"CategoryList", "MerchantList", "TransactionTable">>

InitBrowser ==
    /\ startswith_aliases = <<>>
    /\ in_aliases = <<>>
    /\ categories_by_merchant = <<>>
    /\ \E rows \in Ledgers : Loaded(rows, 0, 0)
    /\ NormIdle
    /\ RecIdle
    /\ options = [NoOptions EXCEPT !.interactive = TRUE]
    /\ out = NoOutput
    /\ MainIdle
    /\ app = NoApp

\* What is left alone by the browser.
BrowserFrame ==
    UNCHANGED <<configVars, loadVars, normVars, recVars, reportVars, pcM, ran,
                nmonths>>

\* CategoryList.get_selected_category(): ListView.index is None while the
\* list has no item, and the first item is highlighted otherwise.
SelectedCategory(cats, ord) ==
    IF ord.categories = <<>> THEN Unset
    ELSE CategoriesByAbsTotal(cats, ord)[1]

\* MerchantList._merchants: what update_merchants was last given, the
\* merchants of the selected category, and nothing before that.
ListedMerchants(cats, ord) ==
    IF SelectedCategory(cats, ord) = Unset THEN <<>>
    ELSE ord.merchants[SelectedCategory(cats, ord)]

\* app = ChaseApp(chase, start, end); app.run(), up to the end of on_mount.
Launch ==
    /\ pc = "loaded"
    /\ app.state = "off"
    /\ LET raised == ChaseAppInit(categories, order)
       IN  /\ error' = raised
           /\ app' = IF raised # ""
                     THEN [NoApp EXCEPT !.state = "raised"]
                     ELSE [NoApp EXCEPT !.state = "running",
                                        !.focused = Panels[1]]
    /\ BrowserFrame

\* The key `enter`: the focused ListView posts Selected when one of its items
\* is highlighted and ChaseApp.on_list_view_selected handles it; the
\* DataTable posts its own message, which ChaseApp does not handle.
PressEnter ==
    /\ app.state = "running"
    /\ LET category == SelectedCategory(categories, order)
           raised == IF app.focused = Panels[1] /\ category # Unset
                     THEN Subscript(categories[category], "merchants")
                     ELSE ""
           focused ==
               IF app.focused = Panels[1]
               THEN IF category # Unset /\ raised = "" THEN Panels[2]
                    ELSE Panels[1]
               ELSE IF app.focused = Panels[2]
               THEN IF ListedMerchants(categories, order) # <<>>
                    THEN Panels[3] ELSE Panels[2]
               ELSE app.focused
       IN  /\ error' = raised
           /\ app' = [state |-> IF raised # "" THEN "raised" ELSE "running",
                      focused |-> focused, key |-> "enter",
                      before |-> app.focused]
    /\ BrowserFrame

\* ChaseApp.action_focus_next_panel
FocusNextPanel(focused) ==
    IF focused = Panels[1] THEN Panels[2]
    ELSE IF focused = Panels[2] THEN Panels[3]
    ELSE focused

\* ChaseApp.action_focus_previous_panel
FocusPreviousPanel(focused) ==
    IF focused = Panels[3] THEN Panels[2]
    ELSE IF focused = Panels[2] THEN Panels[1]
    ELSE focused

\* The key `l`, bound to focus_next_panel.
PressL ==
    /\ app.state = "running"
    /\ app' = [app EXCEPT !.focused = FocusNextPanel(app.focused),
                          !.key = "l", !.before = app.focused]
    /\ error' = error
    /\ BrowserFrame

\* The keys `escape` and `h`, bound to focus_previous_panel.
PressBack(key) ==
    /\ app.state = "running"
    /\ app' = [app EXCEPT !.focused = FocusPreviousPanel(app.focused),
                          !.key = key, !.before = app.focused]
    /\ error' = error
    /\ BrowserFrame

\* The key `q`, bound to quit.
PressQ ==
    /\ app.state = "running"
    /\ app' = [app EXCEPT !.state = "exited", !.key = "q",
                          !.before = app.focused]
    /\ error' = error
    /\ BrowserFrame

NextBrowser ==
    \/ Launch
    \/ PressEnter
    \/ PressL
    \/ \E key \in {"escape", "h"} : PressBack(key)
    \/ PressQ

SpecBrowser == InitBrowser /\ [][NextBrowser]_vars

\* The panel after and before a panel of the chain.
Forward(panel) ==
    IF panel = Panels[1] THEN Panels[2] ELSE Panels[3]

Back(panel) ==
    IF panel = Panels[3] THEN Panels[2] ELSE Panels[1]

\* C20: once the browser is launched the focus is on one of the three
\* panels, on the category list before any key; enter and `l` move it one
\* panel forward, escape and `h` one panel back, and it stays where it is at
\* the ends of the chain.
C20_FocusFollowsChain ==
    app.state # "off" =>
        /\ \E i \in 1..Len(Panels) : app.focused = Panels[i]
        /\ app.key = "" => app.focused = Panels[1]
        /\ app.key \in {"enter", "l"} => app.focused = Forward(app.before)
        /\ app.key \in {"escape", "h"} => app.focused = Back(app.before)

\* With no category loaded the browser runs: `l`, `h` and escape follow the
\* chain, and enter leaves the focus on a list that has no item.
EmptyBrowserFollowsChain ==
    app.state \in {"running", "exited"} =>
        /\ categories = <<>>
        /\ \E i \in 1..Len(Panels) : app.focused = Panels[i]
        /\ app.key = "" => app.focused = Panels[1]
        /\ app.key = "l" => app.focused = Forward(app.before)
        /\ app.key \in {"escape", "h"} => app.focused = Back(app.before)
        /\ app.key \in {"enter", "q"} => app.focused = app.before

\* With any category loaded the browser raises before it shows a panel.
LoadedBrowserRaises ==
    (app.state # "off" /\ categories # <<>>) =>
        app.state = "raised" /\ error = "TypeError"

(***************************************************************************)
(* Claims about the sign filter and the outlier filter of the detector.    *)
(***************************************************************************)
\* The transactions of the list whose amount has the sign of the mode.
OfMode(txns, inc) ==
    SelectSeq(txns, LAMBDA t : IF inc THEN t["Amount"] > 0 ELSE t["Amount"] < 0)

\* C21: expense mode uses only the transactions with amount < 0 and income
\* mode only those with amount > 0, zero amounts being used by neither: the
\* result of a mode is the result on the transactions of its sign alone, so
\* positive amounts never change the expense-mode result, and a merchant
\* whose transactions are all positive (four monthly deposits) is never
\* reported as a recurring expense.
C21_SignOfModeOnly ==
    pcR = "done" =>
        /\ result = AnalyzeMerchantRecurrence(
                        MerchantName, OfMode(transactions, income), income, now)
        /\ LET data == SignFiltered(transactions, income)
           IN  /\ Len(data) = Len(OfMode(transactions, income))
               /\ \A i \in 1..Len(data) :
                    /\ data[i].amount > 0
                    /\ data[i].amount = Abs(OfMode(transactions, income)[i]["Amount"])
                    /\ data[i].date = OfMode(transactions, income)[i]["transaction_date"]
        /\ (~income /\ \A i \in 1..Len(transactions) : transactions[i]["Amount"] > 0)
             => result = None
        /\ (income /\ \A i \in 1..Len(transactions) : transactions[i]["Amount"] < 0)
             => result = None

\* C21's case: four deposits on the 15th of four consecutive months, analysed
\* in expense mode, are not reported.
C21_Witness ==
    /\ pcR = "done"
    /\ ~income
    /\ Len(transactions) = 4
    /\ \A i \in 1..4 : transactions[i]["Amount"] > 0
    /\ Cardinality({transactions[i]["transaction_date"] : i \in 1..4}) = 4
    /\ result = None

(***************************************************************************)
(* SpecOutliers: the detector, in both modes, on histories of one          *)
(* transaction a month whose amounts lie around half of a median.          *)
(***************************************************************************)
\* The longest such history, in transactions.
MaxOutliers == 5

\* The absolute amounts, in cents: 100.00 and 500.00 of the rejected
\* example, their halves 50.00 and 250.00, and the cent below each half.
InitOutliers ==
    /\ UiIdle
    /\ startswith_aliases = <<>>
    /\ in_aliases = <<>>
    /\ categories_by_merchant = <<>>
    /\ LoadIdle
    /\ NormIdle
    /\ pcR = "call"
    /\ income \in BOOLEAN
    /\ \E k \in 3..MaxOutliers :
         \E as \in [1..k -> {4999, 5000, 10000, 24999, 25000, 50000}] :
           transactions = AmountHistory(as, income)
    /\ now = TimeAt(<<11, 5, 2026>>, 1)
    /\ result = None

SpecOutliers == InitOutliers /\ [][NextRecur]_vars

\* The sign-filtered absolute amounts, in the order of the list.
SignedAmounts(txns, inc) ==
    [i \in 1..Len(SignFiltered(txns, inc)) |-> SignFiltered(txns, inc)[i].amount]

\* The initial median: the element of rank floor(n / 2) of the sign-filtered
\* absolute amounts.
InitialMedian(txns, inc) == UpperMiddle(SignedAmounts(txns, inc))

\* The sign-filtered (date, amount) pairs that are not strictly below half
\* of the initial median.
NotBelowHalf(txns, inc) ==
    SelectSeq(SignFiltered(txns, inc),
              LAMBDA p : ~(2 * p.amount < InitialMedian(txns, inc)))

\* C22: the outlier filter drops exactly the sign-filtered absolute amounts
\* strictly below 0.5 x the initial median, an amount equal to 0.5 x the
\* median being kept: the reported average is over the amounts not below the
\* half; whenever fewer than 3 amounts remain the merchant is not recurring,
\* as with 100, 100, 500, 500, of which 2 remain.
C22_OutlierFilter ==
    (pcR = "done" /\ Len(SignFiltered(transactions, income)) >= 3) =>
        LET kept == NotBelowHalf(transactions, income)
        IN  /\ PostOutlier(transactions, income) = kept
            /\ Len(kept) < 3 => result = None
            /\ result # None =>
                 /\ result # [merchant |-> "ZeroDivisionError"]
                 /\ FracEq(result.avg_amount,
                           <<Sum([i \in 1..Len(kept) |-> kept[i].amount]), Len(kept)>>)
            /\ HasAmounts(transactions, <<10000, 10000, 50000, 50000>>) =>
                 /\ Len(kept) = 2
                 /\ result = None

\* C22's case: of the amounts 100, 100, 500, 500 the median is 500, the two
\* amounts of 100 are dropped, 2 remain and the merchant is rejected.
C22_Witness ==
    /\ pcR = "done"
    /\ HasAmounts(transactions, <<10000, 10000, 50000, 50000>>)
    /\ InitialMedian(transactions, income) = 50000
    /\ Len(PostOutlier(transactions, income)) = 2
    /\ result = None

\* An amount equal to half of the median stays: 50, 100, 100, 100 is
\* rejected by the consistency gate with all four amounts left.
HalfOfMedianKept ==
    (pcR = "done" /\ HasAmounts(transactions, <<5000, 10000, 10000, 10000>>)) =>
        /\ Len(PostOutlier(transactions, income)) = 4
        /\ result = None

(***************************************************************************)
(* Claims about the frame of one ingested row, under Spec.                 *)
(***************************************************************************)
\* The dict d2 is the dict d1 with the value of `key` replaced by `value`
\* (the key created if absent) and nothing else changed.
OnlyKeyChanged(d1, d2, key, value) ==
    /\ DOMAIN d2 = DOMAIN d1 \cup {key}
    /\ d2[key] = value
    /\ \A k \in DOMAIN d1 : k # key => d2[k] = d1[k]

\* C23: the ingestion of one accepted row changes exactly one category
\* (created if absent), exactly one merchant inside it (created if absent)
\* and exactly one monthly bucket of that category (created if absent, keyed
\* by the year and month of the row); every other category, merchant and
\* bucket is left as it was, and the transactions of the merchant grow by
\* that row, appended at the end.
C23_OneRowFrame ==
    [][(nrows' = nrows + 1 /\ last'.outcome = "accepted") =>
        LET category == last'.category
            merchant == last'.merchant
            month == StrftimeYm(last'.date)
            amount == last'.row["Amount"]
            before == Get(categories, category, CategoryData)
            after == categories'[category]
            mbefore == Get(before.merchants, merchant, MerchantData)
        IN  /\ OnlyKeyChanged(categories, categories', category, after)
            /\ after # before
            /\ OnlyKeyChanged(before.merchants, after.merchants, merchant,
                   [total |-> mbefore.total + amount,
                    count |-> mbefore.count + 1,
                    transactions |-> Append(mbefore.transactions, last'.row)])
            /\ OnlyKeyChanged(before.monthly_totals, after.monthly_totals, month,
                   Get(before.monthly_totals, month, 0) + amount)
            /\ after.total = before.total + amount
            /\ after.count = before.count + 1]_vars

\* C23's case: an accepted row has just been added to a category that held
\* another merchant and another monthly bucket, next to another category.
C23_Witness ==
    /\ last.outcome = "accepted"
    /\ Cardinality(DOMAIN categories) >= 2
    /\ Cardinality(DOMAIN categories[last.category].merchants) = 2
    /\ Cardinality(DOMAIN categories[last.category].monthly_totals) = 2
    /\ categories[last.category].merchants[last.merchant].count = 1
    /\ StrftimeYm(last.date) \in DOMAIN categories[last.category].monthly_totals

(***************************************************************************)
(* SpecPatterns: the detector, in both modes, on histories given by a      *)
(* first date, the gaps between consecutive dates and an amount for each   *)
(* transaction.                                                            *)
(***************************************************************************)
\* Gaps of 10, 20 and 31 days: two transactions 20 days apart may share a
\* month, and three gaps of 10 days are too short a mean.  Absolute amounts
\* in cents: 100.00, 90.00 within its band, and 40.00, below half of either.
InitPatterns ==
    /\ UiIdle
    /\ startswith_aliases = <<>>
    /\ in_aliases = <<>>
    /\ categories_by_merchant = <<>>
    /\ LoadIdle
    /\ NormIdle
    /\ pcR = "call"
    /\ income \in BOOLEAN
    /\ \E first \in FirstDays, gs \in SeqsUpTo({10, 20, 31}, MaxGaps) :
         LET dates == DatesFrom(first, gs)
         IN  \E as \in [1..Len(dates) -> {4000, 9000, 10000}] :
               transactions =
                 [i \in 1..Len(dates) |->
                    Txn(dates[i], IF income THEN as[i] ELSE -as[i])]
    /\ now = TimeAt(<<11, 5, 2026>>, 1)
    /\ result = None

SpecPatterns == InitPatterns /\ [][NextRecur]_vars

\* The year-months of the post-outlier, sign-filtered transactions.
PostOutlierMonths(txns, inc) ==
    {StrftimeYm(PostOutlier(txns, inc)[i].date) : i \in 1..Len(PostOutlier(txns, inc))}

\* C24: every reported pattern has a count equal to the number of distinct
\* year-months of the post-outlier, sign-filtered transactions (not to their
\* number), with count >= 3, an avg_amount equal to the mean of the
\* post-outlier absolute amounts, and an annual_cost of 12 x avg_amount.
C24_PatternFields ==
    (pcR = "done" /\ result # None) =>
        LET amounts == PostOutlierAmounts(transactions, income)
        IN  /\ result.merchant = MerchantName
            /\ result.count = Cardinality(PostOutlierMonths(transactions, income))
            /\ result.count >= 3
            /\ result.count <= Len(amounts)
            /\ result.avg_amount[2] * Sum(amounts) = result.avg_amount[1] * Len(amounts)
            /\ result.annual_cost[1] * result.avg_amount[2]
                 = 12 * result.avg_amount[1] * result.annual_cost[2]

\* C24's case: a pattern of four transactions of two different amounts in
\* three distinct months is reported with a count of 3.
C24_Witness ==
    /\ pcR = "done"
    /\ result # None
    /\ Len(PostOutlier(transactions, income)) = 4
    /\ Cardinality(Range(PostOutlierAmounts(transactions, income))) = 2
    /\ result.count = 3

(***************************************************************************)
(* SpecPooled: print_recurring_report on ledgers of one row a month, each  *)
(* row of one of two merchants under one of two categories.                *)
(***************************************************************************)
\* Rows of such a ledger, at most.
MaxSplit == 4

\* The i-th row is dated the 15th of the i-th month of 2026; its merchant
\* is a debit of 50.00 or a deposit of 2000.00, and its `Category` column
\* one of two.
InitPooled ==
    /\ startswith_aliases = <<>>
    /\ in_aliases = <<>>
    /\ categories_by_merchant = <<>>
    /\ \E k \in 3..MaxSplit :
         \E ms \in [1..k -> {[description |-> <<"G", "Y", "M">>, amount |-> -5000],
                             [description |-> <<"P", "A", "Y">>, amount |-> 200000]}],
            cs \in [1..k -> {"Health", "Fitness"}] :
           Loaded([i \in 1..k |->
                     CardRow(Fifteenth(<<2026, 1>>, i - 1), ms[i].description,
                             cs[i], ms[i].amount)], 0, 0)
    /\ NormIdle
    /\ RecIdle
    /\ options = [NoOptions EXCEPT !.recurring = TRUE]
    /\ out = NoOutput
    /\ MainIdle
    /\ app = NoApp

SpecPooled == InitPooled /\ [][PrintRecurring]_vars

\* The rows of the file with the description of the merchant, as the
\* detector reads them, in the order of the file.
RowsOf(rows, merchant) ==
    LET mine == SelectSeq(rows, LAMBDA r : r["Description"] = merchant)
    IN  [i \in 1..Len(mine) |-> Txn(Mktime(SDate(mine[i])), mine[i]["Amount"])]

\* What the detector returns for every merchant of the file when it is given
\* all of the merchant's rows, whatever their categories.
PooledPatterns(rows, inc, t) ==
    {AnalyzeMerchantRecurrence(m, RowsOf(rows, m), inc, t) :
        m \in {rows[i]["Description"] : i \in 1..Len(rows)}} \ {None}

\* The categories that hold the merchant.
CategoriesOf(cats, merchant) ==
    {c \in DOMAIN cats : merchant \in DOMAIN cats[c].merchants}

\* C25: the detection analyses each merchant once per mode, over its
\* transactions from every category it appears under: the patterns of a mode
\* are those of the merchants' pooled transactions, a merchant whose
\* transactions are split across categories with fewer than 3 in each is
\* still detected, and no merchant occurs twice in the list of a mode.
C25_PooledAcrossCategories ==
    out.op = "print_recurring_report" =>
        /\ out.error = ""
        /\ Range(out.expenses) = PooledPatterns(fs[LedgerFile], FALSE, ReportTime)
        /\ Range(out.income) = PooledPatterns(fs[LedgerFile], TRUE, ReportTime)
        /\ \A i, j \in 1..Len(out.expenses) :
             i # j => out.expenses[i].merchant # out.expenses[j].merchant
        /\ \A i, j \in 1..Len(out.income) :
             i # j => out.income[i].merchant # out.income[j].merchant
        /\ out.none_detected <=> (out.expenses = <<>> /\ out.income = <<>>)

\* C25's case: a merchant with three debits, two under one category and one
\* under another, is reported as a recurring expense.
C25_Witness ==
    /\ out.op = "print_recurring_report"
    /\ \E i \in 1..Len(out.expenses) :
         /\ out.expenses[i].merchant = <<"G", "Y", "M">>
         /\ out.expenses[i].count = 3
         /\ Cardinality(CategoriesOf(categories, <<"G", "Y", "M">>)) = 2
         /\ \A c \in CategoriesOf(categories, <<"G", "Y", "M">>) :
              categories[c].merchants[<<"G", "Y", "M">>].count < 3

(***************************************************************************)
(* SpecRecency: the detector, in both modes and at several times of run,   *)
(* on monthly histories that may be followed by one late transaction of    *)
(* the other sign or of an outlying amount.                                *)
(***************************************************************************)
\* k transactions of 45.00 of the sign of the mode on the 15th of the k
\* months from ym on, and the late transaction after them, of 03/01/2026:
\* none, one of the other sign, or one of the sign of the mode and of 0.01.
RecencyHistory(ym, k, inc, late) ==
    LET sign == IF inc THEN 1 ELSE -1
        LateDate == Mktime(<<3, 1, 2026>>)
        monthly == [i \in 1..k |-> Txn(Mktime(Fifteenth(ym, i - 1)), sign * 4500)]
    IN  IF late = "none" THEN monthly
        ELSE IF late = "other sign"
        THEN Append(monthly, Txn(LateDate, (0 - sign) * 4500))
        ELSE Append(monthly, Txn(LateDate, sign * 1))

InitRecency ==
    /\ UiIdle
    /\ startswith_aliases = <<>>
    /\ in_aliases = <<>>
    /\ categories_by_merchant = <<>>
    /\ LoadIdle
    /\ NormIdle
    /\ pcR = "call"
    /\ income \in BOOLEAN
    /\ \E ym \in FirstMonths, k \in 3..MaxMonths,
          late \in {"none", "other sign", "outlier"} :
         transactions = RecencyHistory(ym, k, income, late)
    /\ now \in MonthlyNows
    /\ result = None

SpecRecency == InitRecency /\ [][NextRecur]_vars

\* Every gate but the recency gate lets the history pass.
PassesGatesButRecency(txns, inc) ==
    LET data == PostOutlier(txns, inc)
        amounts == PostOutlierAmounts(txns, inc)
    IN  /\ Len(txns) >= 3
        /\ Len(data) >= 3
        /\ Cardinality({StrftimeYm(data[i].date) : i \in 1..Len(data)}) >= 3
        /\ \A i \in 1..Len(amounts) : InBand(amounts[i], UpperMiddle(amounts))
        /\ ~IntervalRejected(PostOutlierDates(txns, inc))

\* The latest date of the post-outlier, sign-filtered transactions.
LatestKept(txns, inc) ==
    Max({PostOutlier(txns, inc)[i].date : i \in 1..Len(PostOutlier(txns, inc))})

\* C26: the most recent post-outlier, sign-filtered transaction of every
\* reported pattern is dated no more than 2 x 365 days before the time of
\* the run, and a merchant that passes every other gate with an older latest
\* such date is not reported, in expense and in income mode.
C26_LatestWithinTwoYears ==
    pcR = "done" =>
        /\ result # None =>
             2 * LatestKept(transactions, income) >= now - 2 * (2 * 365)
        /\ ( /\ PassesGatesButRecency(transactions, income)
             /\ 2 * LatestKept(transactions, income) < now - 2 * (2 * 365) )
               => result = None

\* C26's case: deposits that pass every other gate, the last of them dated
\* 2 x 365 days and a half before the run, followed by a recent transaction
\* that the filters drop, are not reported in income mode.
C26_Witness ==
    /\ pcR = "done"
    /\ income
    /\ PassesGatesButRecency(transactions, income)
    /\ 2 * LatestKept(transactions, income) = now - 2 * (2 * 365) - 1
    /\ Latest(transactions) > LatestKept(transactions, income)
    /\ result = None

\* A pattern whose latest kept date is exactly 2 x 365 days before the run
\* is reported.
ExactlyTwoYearsReported ==
    ( /\ pcR = "done"
      /\ PassesGatesButRecency(transactions, income)
      /\ 2 * LatestKept(transactions, income) = now - 2 * (2 * 365) )
        => result # None

AveragesSetBeforeChart ==
    (pcM = "done" /\ "display_monthly_averages" \in Ran) =>
        /\ ran = <<"print_monthly_report", "display_monthly_averages">>
        /\ nmonths > 0
        /\ \A c \in DOMAIN categories :
             FracEq(categories[c].monthly_average, <<categories[c].total, nmonths>>)

\* The chart itself raises on the first category.
AveragesChartRaises ==
    (pcM = "done" /\ "display_monthly_averages" \in Ran) =>
        error = "TypeError" /\ out.categories = <<>>

(***************************************************************************)
(* Claims about the signature map across files, under Spec.                *)
(***************************************************************************)
\* The number of times the file f holds the row of signature key.
Occurrences(f, key) ==
    Cardinality({j \in 1..Len(fs[f]) : RowKey(Stamp(fs[f][j])) = key})

\* The first file, in the order of loading, that holds the row.
FirstFileWith(key) ==
    files[Min({i \in 1..Len(files) : Occurrences(files[i], key) > 0})]

\* The files of the list are distinct and all of them have been read.
DistinctFilesRead ==
    /\ pc \in {"idle", "loaded"}
    /\ Cardinality(Range(files)) = Len(files)

\* Every row of a file that was read is counted as often as the first file
\* that holds it holds it if it is in the window, and is not counted
\* otherwise.
CountedAsInFirstFile ==
    DistinctFilesRead =>
        \A i \in 1..Len(files) : \A j \in 1..Len(fs[files[i]]) :
            LET row == Stamp(fs[files[i]][j])
                key == RowKey(row)
            IN  IF InWindow(row["transaction_date"])
                THEN /\ key \in DOMAIN filenames_by_row
                     /\ filenames_by_row[key] = FirstFileWith(key)
                     /\ Copies(categories, row) = Occurrences(FirstFileWith(key), key)
                ELSE /\ key \notin DOMAIN filenames_by_row
                     /\ Copies(categories, row) = 0

\* C28: when distinct files are loaded, the entry of a row in the signature
\* map is set when the row is first accepted and never changes to another
\* file; every in-window row is counted in the aggregates as many times as
\* it occurs in the first file, in load order, that holds it, and every
\* occurrence in a later file is dropped, even when the later file holds
\* more copies than the first. The count is stated of every state that the
\* loader leaves, the one read_input_files returns from included.
C28_FirstFileOwnsRow ==
    [][ /\ CountedAsInFirstFile
        /\ \A known \in DOMAIN filenames_by_row :
             /\ known \in DOMAIN filenames_by_row'
             /\ filenames_by_row'[known] = filenames_by_row[known]
        /\ \A new \in DOMAIN filenames_by_row' \ DOMAIN filenames_by_row :
             /\ last'.outcome = "accepted"
             /\ new = RowKey(last'.row)
             /\ filenames_by_row'[new] = filename
      ]_vars

\* C28's case: two distinct files have been read; the first holds a row once
\* and the second holds it twice, and the row is counted once.
C28_Witness ==
    /\ pc = "idle"
    /\ Len(files) = 2
    /\ files[1] # files[2]
    /\ \E j \in 1..Len(fs[files[1]]) :
         LET row == Stamp(fs[files[1]][j])
         IN  /\ Occurrences(files[1], RowKey(row)) = 1
             /\ Occurrences(files[2], RowKey(row)) = 2
             /\ Copies(categories, row) = 1
             /\ filenames_by_row[RowKey(row)] = files[1]

(***************************************************************************)
(* Claims about what the interval gate depends on, under SpecGaps.         *)
(***************************************************************************)
\* The gates before the interval gate let the history pass.
ReachesIntervalGate(txns, inc) ==
    LET amounts == PostOutlierAmounts(txns, inc)
    IN  /\ Len(txns) >= 3
        /\ Len(SignFiltered(txns, inc)) >= 3
        /\ Cardinality(PostOutlierMonths(txns, inc)) >= 3
        /\ \A i \in 1..Len(amounts) : InBand(amounts[i], UpperMiddle(amounts))

\* C29: the interval gate depends on the earliest date, the latest date and
\* the number n of the post-outlier transactions only: it passes exactly
\* when 20 <= (latest - earliest) / (n - 1) <= 40 days, whatever the spacing
\* of the dates in between; and n >= 3 whenever the gate is evaluated, so
\* that the gate is never skipped for fewer than 2 dates.
C29_GateOfSpanAndCount ==
    (pcR = "done" /\ ReachesIntervalGate(transactions, income)) =>
        LET dates == PostOutlierDates(transactions, income)
            n == Len(dates)
            earliest == Min(Range(dates))
            latest == Max(Range(dates))
            passes == /\ 20 * (n - 1) <= latest - earliest
                      /\ latest - earliest <= 40 * (n - 1)
        IN  /\ n >= 3
            /\ ~passes => result = None
            /\ (passes /\ 2 * latest >= now - 2 * (2 * 365)) => result # None

\* C29's case: a pattern is reported whose dates include a gap of 5 days
\* and a gap of 41 days.
C29_Witness ==
    /\ pcR = "done"
    /\ result # None
    /\ LET dates == PostOutlierDates(transactions, income)
       IN  /\ \E i \in 1..(Len(dates) - 1) : dates[i + 1] - dates[i] = 5
           /\ \E i \in 1..(Len(dates) - 1) : dates[i + 1] - dates[i] = 41

(***************************************************************************)
(* Claims about what the outlier filter leaves, under SpecOutliers.        *)
(***************************************************************************)
\* The number of times the list holds the value.
CountOf(s, v) == Cardinality({i \in 1..Len(s) : s[i] = v})

\* C30: the outlier filter removes only amounts below the initial median:
\* every amount is either left as often as it was there or is below the
\* median and removed, the largest amount and the initial median survive,
\* and the median of the surviving amounts is at least the initial median.
C30_FilterKeepsMedianAndAbove ==
    (pcR = "done" /\ Len(SignFiltered(transactions, income)) >= 3) =>
        LET before == SignedAmounts(transactions, income)
            after == PostOutlierAmounts(transactions, income)
            initial == InitialMedian(transactions, income)
        IN  /\ \A v \in Range(before) :
                 \/ CountOf(after, v) = CountOf(before, v)
                 \/ v < initial /\ CountOf(after, v) = 0
            /\ Range(after) \subseteq Range(before)
            /\ Max(Range(before)) \in Range(after)
            /\ initial \in Range(after)
            /\ UpperMiddle(after) >= initial
            /\ result # None =>
                 \A i \in 1..Len(after) : InBand(after[i], UpperMiddle(after))

\* C30's case: of five amounts two are removed, three survive, and their
\* median is above the initial median; the pattern is reported.
C30_Witness ==
    /\ pcR = "done"
    /\ Len(SignFiltered(transactions, income)) = 5
    /\ Len(PostOutlier(transactions, income)) = 3
    /\ UpperMiddle(PostOutlierAmounts(transactions, income))
         > InitialMedian(transactions, income)
    /\ result # None

====
